---- MODULE Spec2Model ----
(***************************************************************************)
(* A model of the dataset engine of accelerator/dataset.py: the            *)
(* DatasetWriter (column declaration, per-slice and splitting write        *)
(* modes, the generated write functions, close and finish), the metadata   *)
(* record that finish persists (Dataset.new / Dataset.append / _append /   *)
(* _maybe_merge / _update_caches / _save) and the reader that iterates a   *)
(* persisted dataset (_column_iterator / _iterator / iterate_list).        *)
(*                                                                         *)
(* Python values are encoded as follows.  None is the empty sequence <<>>  *)
(* where the other values are numbers or lists (min, max, offsets,         *)
(* sliceno, _for_single_slice), and the empty string where the other       *)
(* values are strings (hashlabel, parent, previous): both encodings are    *)
(* falsy in Python exactly when None is.  A dict is a function.  A file    *)
(* name is the 4-tuple <<job, dataset, slot, clean column name>> where     *)
(* slot is the text that replaces %s in a column location: the decimal     *)
(* slice number, "m" for a merged file, or "%s" itself.                    *)
(***************************************************************************)
EXTENDS Integers, Sequences, FiniteSets, TLC

VARIABLES
    running,           \* g.running: the phase of the job
    g_sliceno,         \* g.sliceno: the slice of this process in analysis
    dw,                \* the attributes of the DatasetWriter instance
    writers,           \* dw.writers: column -> typed writer (<<>>: no attribute)
    allwriters,        \* dw._allwriters_: per slice, column -> typed writer
    files,             \* the column files on disk: file name -> values
    datasets,          \* the persisted dataset.pickle records, by identity
    saved_by,          \* history: the operation that persisted each record
    datasets_written,  \* _datasets_written
    registry,          \* _datasetwriters (the names registered)
    written,           \* history: the rows the write calls took, in call order
    rewritten,         \* history: the identities that were saved over
    called,            \* the last call of chain or iterate_list, with its result
    runner,            \* the attributes of the Runner instance
    sock,              \* the socket pair between the Runner and its process
    threads,           \* the receiver and the request threads of the Runner
    urd,               \* the attributes of the Urd instance and its Automata
    urd_call           \* the Urd method that is running, inside _call

\* the variables of the daemon and the build script; the variables of a job
job_vars == <<running, g_sliceno, dw, writers, allwriters, files, datasets,
              saved_by, datasets_written, registry, written, rewritten,
              called>>
daemon == <<runner, sock, threads, urd, urd_call>>

vars == <<job_vars, daemon>>

-----------------------------------------------------------------------------
(* Bounds of the model and constants of the program.                       *)

\* g.slices, the number of slices of the installation
Slices == 2
\* column values are 0..MaxVal
MaxVal == 1
\* at most this many write calls are made on the writer
MaxWrites == 3
\* at most this many of them go to a typed writer directly
MaxDirect == 1
\* at most this many datasets are persisted
MaxDatasets == 3
\* the datasets of the chain that earlier jobs left behind
PriorChain == 62
\* at most this many rows are written to a dataset that is read
ReadWrites == 2
\* "arbitrary guess of good size": the mean slice size up to which
\* _maybe_merge merges the slice files of a column
MergeLimit == 524288
\* the chain cache is written when cache_distance reaches this
CacheStride == 64

None == <<>>
Some(x) == <<x>>

SliceNos == 0 .. (Slices - 1)
Vals == 0 .. MaxVal
ColNames == {"k", "v"}
\* the current job and the name of the dataset the writer builds
job == "J"
dsname == "default"
ParentId == "P/default"

Range(f) == {f[x] : x \in DOMAIN f}

RECURSIVE SumSeq(_)
SumSeq(s) == IF s = <<>> THEN 0 ELSE Head(s) + SumSeq(Tail(s))

RECURSIVE Concat(_)
Concat(ss) == IF ss = <<>> THEN <<>> ELSE Head(ss) \o Concat(Tail(ss))

\* sorted(S) for a set of column names (strings compare as in Python for
\* the lowercase one-letter names used here)
ColRank(c) == CASE c = "k" -> 1 [] c = "p" -> 2 [] c = "v" -> 3 [] OTHER -> 4
RECURSIVE SortedCols(_)
SortedCols(S) ==
    IF S = {} THEN <<>>
    ELSE LET c == CHOOSE x \in S : \A y \in S : ColRank(x) <= ColRank(y)
         IN <<c>> \o SortedCols(S \ {c})

DictSet(d, k, v) == [x \in DOMAIN d \cup {k} |-> IF x = k THEN v ELSE d[x]]

-----------------------------------------------------------------------------
(* The typed column codec (gzutil, a C extension that is not part of the   *)
(* Python sources): a writer appends values to its file, counts them and   *)
(* tracks their extremes; with hashfilter = (sliceno, slices) it appends   *)
(* only the values whose hash falls in sliceno and says whether it did.    *)
(* A reader yields the values of a file, from a byte offset and up to a    *)
(* count when it is given them.                                            *)

\* the codec's hash of a value: deterministic, and not the identity
Hash(v) == (v * 5 + 3) % 16

\* w.hashcheck(v) of a writer opened with hashfilter=(sliceno, slices)
hashcheck(hashfilter, v) == Hash(v) % hashfilter[2] = hashfilter[1]

\* typed_writer(type)(fn, hashfilter=...): a writer on a fresh file
OpenWriter(fn, hashfilter) ==
    [fn |-> fn, count |-> 0, min |-> None, max |-> None,
     hashfilter |-> hashfilter, open |-> TRUE]

\* does w.write(v) append (and return a true value)?
WriterAccepts(w, v) ==
    w.hashfilter = None \/ hashcheck(w.hashfilter, v)

\* the types of the model's columns, and the bytes a stored value takes:
\* an int64 is small, a unicode value here is a long text, an ascii value
\* a text half as long as the mean size that is still merged
KnownTypes == {"int64", "unicode", "ascii"}
TypeOf(colname) == IF colname = "v" THEN "unicode" ELSE "int64"
RecSize(type) ==
    IF type = "int64" THEN 8
    ELSE IF type = "ascii" THEN MergeLimit \div 2 ELSE MergeLimit + 1

\* os.path.getsize of a column file holding these values
FileSize(vals, type) == Len(vals) * RecSize(type)

\* type2iter[type](fn, seek=..., max_count=...): the values from the byte
\* offset seek on, at most max_count of them (all of them below 0)
ReadFile(vals, type, seek, max_count) ==
    LET first == (seek \div RecSize(type)) + 1
        avail == IF first > Len(vals) THEN 0 ELSE Len(vals) - first + 1
        n == IF max_count < 0 \/ max_count > avail THEN avail ELSE max_count
    IN SubSeq(vals, first, first + n - 1)

-----------------------------------------------------------------------------
(* Dataset metadata.                                                       *)

\* DatasetColumn (the namedtuple _DatasetColumn_3_0)
DatasetColumn(type, name, location, min, max, offsets) ==
    [type |-> type, backing_type |-> type, name |-> name,
     location |-> location, min |-> min, max |-> max, offsets |-> offsets]

\* '%s/%s' % (jobid, name)
FullName(jobid, name) == jobid \o "/" \o name

\* The jobs that left datasets behind: this job, the job P of the parent
\* dataset, the job R of a dataset that is read, and the jobs Q1, Q2, ...
\* whose datasets form a chain; and the
\* names datasets are saved under.  A job id holds no '/'.
PriorJob(i) == "Q" \o ToString(i)
JobIds == {job, "P", "R"} \cup {PriorJob(i) : i \in 1 .. PriorChain}
DsNames == {"default", "a", "b", "link", "merged"}

\* the spellings of dataset identities: "job/name", and the job id alone
\* for the dataset named default; Spelled[t] is the (job, name) that t
\* splits into: jobid.split('/', 1), with name or 'default'
Spelled ==
    [t \in JobIds \cup {FullName(p[1], p[2]) : p \in JobIds \X DsNames} |->
        IF t \in JobIds THEN <<t, "default">>
        ELSE CHOOSE p \in JobIds \X DsNames : FullName(p[1], p[2]) = t]

\* _dsid: the "job/name" form of a dataset identity ("" stands for None):
\* '/default' is added to a spelling without '/'
_dsid(t) == IF t = "" THEN "" ELSE IF t \in JobIds THEN t \o "/default" ELSE t

\* unicode(Dataset(t)): the job id alone when the name is default
Dataset_unicode(t) ==
    LET p == Spelled[t]
    IN IF p[2] = "default" THEN p[1] ELSE FullName(p[1], p[2])

\* where _ds_load finds the record of Dataset(t): jobid/name/dataset.pickle
Pickle(t) == LET p == Spelled[t] IN FullName(p[1], p[2])

\* does Dataset(t) load?  (NoSuchDatasetError otherwise)
Exists(ds, t) == t \in DOMAIN Spelled /\ Pickle(t) \in DOMAIN ds

\* the slot text of a slice number: '%s' % (sliceno,)
SliceStr(s) == ToString(s)

\* Dataset.column_filename(colname, sliceno) of a record d; sliceno None
\* leaves the placeholder in place
column_filename(d, colname, sliceno) ==
    LET dc == d.columns[colname] IN
    IF dc.offsets # None THEN dc.location
    ELSE [dc.location EXCEPT ![3] =
             IF sliceno = None THEN "%s" ELSE SliceStr(sliceno[1])]

\* The characters names are written in: letters in both cases, a digit,
\* the underscore and the dot; "if" is the keyword among the names.
Letters == {"k", "v", "p", "i", "f"}
Capitals == {"K", "V"}
Digits == {"1"}
Alphabet == Letters \cup Capitals \cup Digits \cup {"_", "."}
\* the longest name that is taken apart
MaxName == 4

\* ''.join(chars)
RECURSIVE Join(_)
Join(chars) == IF chars = <<>> THEN "" ELSE Head(chars) \o Join(Tail(chars))

\* the characters of the string n, in order
Characters(n) ==
    IF n \in Alphabet THEN <<n>>
    ELSE CHOOSE chars \in UNION {[1 .. len -> Alphabet] : len \in 0 .. MaxName} :
            Join(chars) = n

\* c.isalnum(), c.isdigit() and c.lower() of a character, iskeyword(n)
isalnum(c) == c \in Letters \cup Capitals \cup Digits
isdigit(c) == c \in Digits
lower(c) == IF c = "K" THEN "k" ELSE IF c = "V" THEN "v" ELSE c
iskeyword(n) == n \in {"if"}

\* n.lower() of a string
str_lower(n) ==
    LET chars == Characters(n) IN Join([i \in DOMAIN chars |-> lower(chars[i])])

\* the loop of _clean_name: '_' is appended until the name, in lower case,
\* is new and the name is no keyword
RECURSIVE _clean_name_new(_, _)
_clean_name_new(n, seen_n) ==
    IF str_lower(n) \in seen_n \/ iskeyword(n)
    THEN _clean_name_new(n \o "_", seen_n) ELSE n

\* _clean_name(n, seen_n): what is not alphanumeric becomes '_', a leading
\* digit gets '_' before it, and '_' is appended until the name is new
_clean_name(n, seen_n) ==
    LET chars == Characters(n)
        alnum == Join([i \in DOMAIN chars |->
                          IF isalnum(chars[i]) THEN chars[i] ELSE "_"])
    IN _clean_name_new(IF isdigit(chars[1]) THEN "_" \o alnum ELSE alnum,
                       seen_n)

\* the offsets _maybe_merge records: where each slice starts in the file
RECURSIVE OffsetsOf(_, _)
OffsetsOf(sizes, pos) ==
    IF sizes = <<>> THEN <<>>
    ELSE <<pos>> \o OffsetsOf(Tail(sizes), pos + Head(sizes))

\* The dataset of the parent job P that exists before the writer is made:
\* columns p and v, one row, in slice 0, hashed on p; both columns were
\* small enough to be merged.
ParentVal == CHOOSE v \in Vals : Hash(v) % Slices = 0
ParentLines == [s \in 1 .. Slices |-> IF s = 1 THEN 1 ELSE 0]
ParentColumn(c) ==
    DatasetColumn(TypeOf(c), c, <<"P", "default", "m", c>>,
                  Some(ParentVal), Some(ParentVal),
                  OffsetsOf([s \in 1 .. Slices |->
                                ParentLines[s] * RecSize(TypeOf(c))], 0))
ParentDataset ==
    [hashlabel |-> "p", columns |-> [c \in {"p", "v"} |-> ParentColumn(c)],
     previous |-> "", parent |-> None, lines |-> ParentLines,
     cache |-> None, cache_distance |-> None]
ParentFiles ==
    [fn \in {<<"P", "default", "m", "p">>, <<"P", "default", "m", "v">>}
        |-> <<ParentVal>>]

-----------------------------------------------------------------------------
(* DatasetWriter.__new__ : the state after construction.                   *)

NewWriter(run, hashlabel, parent, meta_only, for_single_slice, pcolumns) ==
    [_running |-> run,
     hashlabel |-> hashlabel,
     hashlabel_override |-> <<FALSE>>,
     previous |-> _dsid(""),
     name |-> dsname,
     parent |-> _dsid(parent),
     columns |-> <<>>,
     meta_only |-> meta_only,
     _for_single_slice |-> for_single_slice,
     _clean_names |-> <<>>,
     _pcolumns |-> pcolumns,
     _seen_n |-> {str_lower(pcolumns[c].name) : c \in DOMAIN pcolumns},
     _started |-> 0,
     _lens |-> <<>>,
     _minmax |-> <<>>,
     _order |-> <<>>,
     sliceno |-> None,
     discard |-> FALSE,
     has_write |-> FALSE,
     split |-> FALSE,
     cyc |-> 0]

\* the writers the model makes: with and without hashlabel, parent; a
\* meta_only writer has no hashlabel
Configs ==
    {c \in [hashlabel : {"", "k"}, parent : {"", ParentId},
            meta_only : BOOLEAN] : c.meta_only => c.hashlabel = ""}

\* no call of chain or iterate_list was made yet
NoCall == [op |-> ""]

\* no Runner and no Urd: the processes of a job have neither
NoDaemon ==
    /\ runner = None
    /\ sock = None
    /\ threads = None
    /\ urd = None
    /\ urd_call = None

Init ==
    /\ running = "prepare"
    /\ g_sliceno = None
    /\ datasets = (ParentId :> ParentDataset)
    /\ saved_by = (ParentId :> "finish")
    /\ files = ParentFiles
    /\ \E c \in Configs :
          dw = NewWriter(running, c.hashlabel, c.parent, c.meta_only, Some(0),
                         IF c.parent = "" THEN <<>>
                         ELSE datasets[c.parent].columns)
    /\ writers = <<>>
    /\ allwriters = <<>>
    /\ datasets_written = <<>>
    /\ registry = {dsname}
    /\ written = <<>>
    /\ rewritten = {}
    /\ called = NoCall
    /\ NoDaemon

\* "After a successful finish the writer is unusable", and discard aborts
\* the build: a writer that left the registry is only finished or
\* discarded again
Usable == dsname \in registry

\* the job runtime moves on to the next phase; an analysis process runs
\* for one slice, which is or is not the writer's _for_single_slice
NextPhase ==
    /\ Usable
    /\ running # "synthesis"
    /\ running' = IF running = "prepare" THEN "analysis" ELSE "synthesis"
    /\ g_sliceno' \in IF running = "prepare" THEN {Some(s) : s \in SliceNos}
                      ELSE {None}
    /\ UNCHANGED <<rewritten, called, daemon>>
    /\ UNCHANGED <<dw, writers, allwriters, files, datasets, saved_by,
                   datasets_written, registry, written>>

-----------------------------------------------------------------------------
(* DatasetWriter.add                                                       *)

\* add without its assert on _started (C7 rests on it)
add_res_started(colname, coltype) ==
    IF ~(running = dw._running /\ colname \notin DOMAIN dw.columns)
    THEN "AssertionError"
    ELSE IF coltype \notin KnownTypes THEN "ValueError" ELSE "ok"

\* how add(colname, coltype) ends
add_res(colname, coltype) ==
    IF ~(running = dw._running /\ dw._started = 0
         /\ colname \notin DOMAIN dw.columns)
    THEN "AssertionError"
    ELSE IF coltype \notin KnownTypes THEN "ValueError" ELSE "ok"

add_effect(colname, coltype) ==
    LET clean == IF colname \in DOMAIN dw._pcolumns
                 THEN dw._pcolumns[colname].name
                 ELSE _clean_name(colname, dw._seen_n)
    IN [dw EXCEPT !.columns = dw.columns @@ (colname :> coltype),
                  !._order = Append(dw._order, colname),
                  !._clean_names = dw._clean_names @@ (colname :> clean),
                  !._seen_n = IF colname \in DOMAIN dw._pcolumns
                              THEN dw._seen_n
                              ELSE dw._seen_n \cup {str_lower(clean)}]

add(colname, coltype) ==
    /\ Usable
    /\ dw' = IF add_res(colname, coltype) = "ok"
             THEN add_effect(colname, coltype) ELSE dw
    /\ UNCHANGED <<rewritten, called, daemon>>
    /\ UNCHANGED <<running, g_sliceno, writers, allwriters, files, datasets,
                   saved_by, datasets_written, registry, written>>

-----------------------------------------------------------------------------
(* Opening and closing the typed writers: _mkwriters, _close, close.       *)

\* DatasetWriter.column_filename(colname, sliceno): '%s/%d.%s' in the
\* directory of the current job
dw_column_filename(colname, sliceno) ==
    <<job, dw.name, SliceStr(sliceno), dw._clean_names[colname]>>

\* the asserts _mkwriters makes before it changes anything
_mkwriters_ok ==
    /\ DOMAIN dw.columns # {}
    /\ dw.hashlabel # "" => dw.hashlabel \in DOMAIN dw.columns

\* _mkwriters if no writer verified the slice (C2 rests on the hashfilter)
_mkwriters_unfiltered(sliceno, filtered) ==
    [colname \in DOMAIN dw.columns |->
        OpenWriter(dw_column_filename(colname, sliceno), None)]

\* the writers _mkwriters(sliceno, filtered) opens: only the hashlabel
\* column of a filtered set verifies the slice
_mkwriters(sliceno, filtered) ==
    [colname \in DOMAIN dw.columns |->
        OpenWriter(dw_column_filename(colname, sliceno),
                   IF filtered /\ colname = dw.hashlabel
                   THEN <<sliceno, Slices>> ELSE None)]

\* opening a writer creates its file afresh
Truncated(fs, ws) ==
    LET fns == {ws[c].fn : c \in DOMAIN ws} IN
    [fn \in DOMAIN fs \cup fns |-> IF fn \in fns THEN <<>> ELSE fs[fn]]

Closed(ws) == [c \in DOMAIN ws |-> [ws[c] EXCEPT !.open = FALSE]]

\* _close(sliceno, writers): every writer is closed, then the counts must
\* agree before the slice's line count is recorded
_close_ok(ws) == Cardinality({ws[c].count : c \in DOMAIN ws}) = 1

_close_lens(lens, sliceno, ws) ==
    DictSet(lens, sliceno, (CHOOSE n \in {ws[c].count : c \in DOMAIN ws} : TRUE))

_close_minmax(minmax, sliceno, ws) ==
    DictSet(minmax, sliceno, [c \in DOMAIN ws |-> <<ws[c].min, ws[c].max>>])

\* DatasetWriter.close() in splitting mode: the slices are closed in turn,
\* d.aw is _allwriters_ so far; a meta_only writer has None for writers
RECURSIVE close_all(_, _)
close_all(d, sliceno) ==
    IF sliceno >= Len(d.aw) THEN d
    ELSE LET ws == d.aw[sliceno + 1] IN
         IF ws = <<>> THEN [d EXCEPT !.res = "AttributeError"]
         ELSE IF ~_close_ok(ws)
         THEN [d EXCEPT !.res = "AssertionError",
                        !.aw[sliceno + 1] = Closed(ws)]
         ELSE close_all([d EXCEPT !.lens = _close_lens(d.lens, sliceno, ws),
                                  !.minmax = _close_minmax(d.minmax, sliceno, ws),
                                  !.aw[sliceno + 1] = Closed(ws)],
                        sliceno + 1)

\* DatasetWriter.close(): what it leaves of _lens, _minmax, writers and
\* _allwriters_, and how it ends
close ==
    IF dw._started = 2
    THEN LET r == close_all([res |-> "ok", lens |-> dw._lens,
                             minmax |-> dw._minmax, aw |-> allwriters], 0)
         IN [res |-> r.res, lens |-> r.lens, minmax |-> r.minmax,
             writers |-> writers, allwriters |-> r.aw]
    ELSE IF writers = <<>>
    THEN [res |-> "ok", lens |-> dw._lens, minmax |-> dw._minmax,
          writers |-> writers, allwriters |-> allwriters]
    ELSE IF ~_close_ok(writers)
    THEN [res |-> "AssertionError", lens |-> dw._lens, minmax |-> dw._minmax,
          writers |-> Closed(writers), allwriters |-> allwriters]
    ELSE [res |-> "ok",
          lens |-> _close_lens(dw._lens, dw.sliceno[1], writers),
          minmax |-> _close_minmax(dw._minmax, dw.sliceno[1], writers),
          writers |-> <<>>, allwriters |-> allwriters]

-----------------------------------------------------------------------------
(* DatasetWriter.set_slice / _set_slice / enable_hash_discard              *)

\* the slice numbers a caller passes: the real ones and one too large
SliceArgs == 0 .. Slices

\* the assert of set_slice and the first assert of _set_slice
_set_slice_ok ==
    /\ running # "analysis" \/ dw._for_single_slice = g_sliceno
    /\ dw._started < 2

\* how set_slice(sliceno) ends
set_slice_res ==
    IF ~_set_slice_ok THEN "AssertionError"
    ELSE IF close.res # "ok" THEN close.res
    ELSE IF ~_mkwriters_ok THEN "AssertionError"
    ELSE "ok"

\* rows written to a slice are gone when its files are opened afresh
Forget(log, sliceno) == SelectSeq(log, LAMBDA e : e.sl # Some(sliceno))

set_slice(sliceno) ==
    LET c == close
        d1 == [dw EXCEPT !._lens = c.lens, !._minmax = c.minmax]
        d2 == [d1 EXCEPT !.sliceno = Some(sliceno)]
        ws == _mkwriters(sliceno, TRUE)
    IN
    /\ Usable
    /\ UNCHANGED <<rewritten, called, daemon>>
    /\ UNCHANGED <<running, g_sliceno, datasets, saved_by, datasets_written,
                   registry, allwriters>>
    /\ IF ~_set_slice_ok
       THEN UNCHANGED <<dw, writers, files, written>>
       ELSE IF c.res # "ok"
       THEN /\ dw' = d1
            /\ writers' = c.writers
            /\ UNCHANGED <<files, written>>
       ELSE IF ~_mkwriters_ok
       THEN /\ dw' = d2
            /\ writers' = c.writers
            /\ UNCHANGED <<files, written>>
       ELSE IF dw.meta_only
       THEN /\ dw' = [d2 EXCEPT !._started = 1]
            /\ writers' = c.writers
            /\ UNCHANGED <<files, written>>
       ELSE /\ dw' = [d2 EXCEPT !._started = 1, !.has_write = TRUE,
                                !.discard = FALSE]
            /\ writers' = ws
            /\ files' = Truncated(files, ws)
            /\ written' = Forget(written, sliceno)

\* how enable_hash_discard() ends; _mkwritefuncs needs self.writers
enable_hash_discard_res ==
    IF dw.hashlabel = "" \/ dw._started # 1 THEN "AssertionError"
    ELSE IF writers = <<>> THEN "AttributeError"
    ELSE "ok"

enable_hash_discard ==
    /\ Usable
    /\ dw' = IF enable_hash_discard_res = "ok"
             THEN [dw EXCEPT !.discard = TRUE] ELSE dw
    /\ UNCHANGED <<rewritten, called, daemon>>
    /\ UNCHANGED <<running, g_sliceno, writers, allwriters, files, datasets,
                   saved_by, datasets_written, registry, written>>

-----------------------------------------------------------------------------
(* The generated write functions of the per-slice mode (_mkwritefuncs).    *)
(* A write function is modelled by what it makes of a row: how the call    *)
(* ends (res) and the value it appends to each column it appends to (put). *)
(* Positions are counted from 1 here and from 0 in the source.             *)

index(seq, x) == CHOOSE ix \in 1 .. Len(seq) : seq[ix] = x

Raise(exc) == [res |-> exc, put |-> <<>>]
Wrote(put) == [res |-> "ok", put |-> put]

\* the rows a caller can pass: a value for every declared column, as the
\* mapping write_dict takes; column v always gets the same value
Rows == {values \in [DOMAIN dw.columns -> Vals] :
            "v" \in DOMAIN values => values["v"] = MaxVal}
\* the same row as the list write_list takes
AsList(values) == [ix \in 1 .. Len(dw._order) |-> values[dw._order[ix]]]
\* the same row as the arguments of write, by parameter name
AsArgs(values) ==
    [n \in {dw._clean_names[c] : c \in DOMAIN dw.columns} |->
        values[CHOOSE c \in DOMAIN dw.columns : dw._clean_names[c] = n]]

\* def write_dict(values)
write_dict(values) ==
    LET hl == dw.hashlabel
        w == [k \in DOMAIN writers \ {hl} |-> values[k]]
    IN IF hl # ""
       THEN IF WriterAccepts(writers[hl], values[hl])
            THEN Wrote(w @@ (hl :> values[hl]))
            ELSE IF ~dw.discard THEN Raise("DatasetUsageError")
            ELSE Wrote(<<>>)
       ELSE Wrote(w)

\* the generated def write_list(values)
write_list(values) ==
    LET hl == dw.hashlabel
        n == Len(dw._order)
        w_l(ixs) == [c \in {dw._order[ix] : ix \in ixs} |->
                        values[index(dw._order, c)]]
    IN IF n = 1
       THEN IF WriterAccepts(writers[dw._order[1]], values[1])
            THEN Wrote(w_l({1})) ELSE Wrote(<<>>)
       ELSE IF hl # ""
       THEN LET hix == index(dw._order, hl) IN
            IF WriterAccepts(writers[hl], values[hix])
            THEN Wrote(w_l(1 .. n))
            ELSE IF ~dw.discard THEN Raise("DatasetUsageError")
            ELSE Wrote(<<>>)
       ELSE Wrote(w_l(1 .. n))

\* the generated def write(<the clean column names>)
write(args) ==
    LET hl == dw.hashlabel
        n == Len(dw._order)
        names == [ix \in 1 .. n |-> dw._clean_names[dw._order[ix]]]
        w_l(ixs) == [c \in {dw._order[ix] : ix \in ixs} |->
                        args[names[index(dw._order, c)]]]
    IN IF n = 1
       THEN IF WriterAccepts(writers[dw._order[1]], args[names[1]])
            THEN Wrote(w_l({1})) ELSE Wrote(<<>>)
       ELSE IF hl # ""
       THEN LET hix == index(dw._order, hl) IN
            IF WriterAccepts(writers[hl], args[names[hix]])
            THEN Wrote(w_l(1 .. n))
            ELSE IF ~dw.discard THEN Raise("DatasetUsageError")
            ELSE Wrote(<<>>)
       ELSE Wrote(w_l(1 .. n))

WriteSurfaces == {"write", "write_list", "write_dict"}

\* dw.<surface>(row): the attribute must exist and its writers be open
write_outcome(surface, values) ==
    IF ~dw.has_write THEN Raise("AttributeError")
    ELSE IF writers = <<>> \/ \E c \in DOMAIN writers : ~writers[c].open
    THEN Raise("ValueError")
    ELSE CASE surface = "write" -> write(AsArgs(values))
           [] surface = "write_list" -> write_list(AsList(values))
           [] surface = "write_dict" -> write_dict(values)

\* the files after the writers ws have appended put
Put(fs, ws, put) ==
    [fn \in DOMAIN fs |->
        IF \E c \in DOMAIN put : ws[c].fn = fn
        THEN Append(fs[fn], put[CHOOSE c \in DOMAIN put : ws[c].fn = fn])
        ELSE fs[fn]]

\* a writer that appends a value counts it and tracks the extremes
Counted(ws, put) ==
    [c \in DOMAIN ws |->
        IF c \in DOMAIN put
        THEN [ws[c] EXCEPT
                 !.count = @ + 1,
                 !.min = IF @ = None \/ put[c] < @[1] THEN Some(put[c]) ELSE @,
                 !.max = IF @ = None \/ put[c] > @[1] THEN Some(put[c]) ELSE @]
        ELSE ws[c]]

\* the history records a call that returned normally, unless the caller
\* asked for discarding and the row was discarded
Logged(log, r, values, sl, discard) ==
    IF r.res = "ok" /\ (~discard \/ DOMAIN r.put # {})
    THEN Append(log, [row |-> values, sl |-> sl, direct |-> FALSE]) ELSE log

write_call(surface, values) ==
    LET r == write_outcome(surface, values) IN
    /\ Usable
    /\ Len(written) < MaxWrites
    /\ files' = Put(files, writers, r.put)
    /\ writers' = Counted(writers, r.put)
    /\ written' = Logged(written, r, values, dw.sliceno, dw.discard)
    /\ UNCHANGED <<rewritten, called, daemon>>
    /\ UNCHANGED <<running, g_sliceno, dw, allwriters, datasets, saved_by,
                   datasets_written, registry>>

\* dw.writers[colname].write(value): a typed writer used directly
writer_write(colname, value) ==
    LET res == IF writers = <<>> THEN "AttributeError"
               ELSE IF ~writers[colname].open THEN "ValueError" ELSE "ok"
        put == IF res = "ok" /\ WriterAccepts(writers[colname], value)
               THEN (colname :> value) ELSE <<>>
    IN
    /\ Usable
    /\ Len(written) < MaxWrites
    /\ Len(SelectSeq(written, LAMBDA e : e.direct)) < MaxDirect
    /\ files' = IF res = "ok" THEN Put(files, writers, put) ELSE files
    /\ writers' = IF res = "ok" THEN Counted(writers, put) ELSE writers
    /\ written' = IF DOMAIN put # {}
                  THEN Append(written, [row |-> put, sl |-> dw.sliceno,
                                        direct |-> TRUE])
                  ELSE written
    /\ UNCHANGED <<rewritten, called, daemon>>
    /\ UNCHANGED <<running, g_sliceno, dw, allwriters, datasets, saved_by,
                   datasets_written, registry>>

-----------------------------------------------------------------------------
(* The splitting mode: _allwriters, _mksplit and the generated split       *)
(* functions.                                                              *)

SplitGetters == {"get_split_write", "get_split_write_list",
                 "get_split_write_dict"}

\* _mksplit without its assert on _started (C6 rests on it)
_mksplit_any_mode ==
    running = "analysis" => dw._for_single_slice = g_sliceno

\* the asserts of _mksplit
_mksplit_ok ==
    /\ running = "analysis" => dw._for_single_slice = g_sliceno
    /\ dw._started # 1

\* the property _allwriters builds the writers of every slice once;
\* _mkwriters returns None for a meta_only writer
_allwriters ==
    IF allwriters # <<>> THEN allwriters
    ELSE [i \in 1 .. Slices |->
             IF dw.meta_only THEN <<>> ELSE _mkwriters(i - 1, FALSE)]

RECURSIVE TruncatedAll(_, _)
TruncatedAll(fs, wss) ==
    IF wss = <<>> THEN fs ELSE TruncatedAll(Truncated(fs, Head(wss)), Tail(wss))

\* how a getter ends: the split functions are made once, and d2l fails on
\* the None a meta_only writer has for writers
get_split_res ==
    IF dw.split THEN "ok"
    ELSE IF ~_mksplit_ok \/ (allwriters = <<>> /\ ~_mkwriters_ok)
    THEN "AssertionError"
    ELSE IF dw.meta_only THEN "AttributeError"
    ELSE "ok"

get_split(getter) ==
    /\ Usable
    /\ UNCHANGED <<rewritten, called, daemon>>
    /\ UNCHANGED <<running, g_sliceno, writers, datasets, saved_by,
                   datasets_written, registry>>
    /\ IF dw.split \/ get_split_res = "AssertionError"
       THEN UNCHANGED <<dw, allwriters, files, written>>
       ELSE IF dw.meta_only
       THEN /\ dw' = [dw EXCEPT !._started = 2]
            /\ allwriters' = _allwriters
            /\ UNCHANGED <<files, written>>
       ELSE /\ dw' = [dw EXCEPT !._started = 2, !.split = TRUE, !.cyc = 0]
            /\ allwriters' = _allwriters
            /\ files' = IF allwriters = <<>>
                        THEN TruncatedAll(files, _allwriters) ELSE files
            /\ written' = IF allwriters = <<>> THEN <<>> ELSE written

\* the slice the generated code picks: writers[hsh(value) % slices] with a
\* hashlabel, writers[next(cyc)] without
split_hash_slice(v) == Hash(v) % Slices
split_cyc_slice == dw.cyc

\* def split(<the clean column names>)
split(args) ==
    LET hl == dw.hashlabel
        names == [ix \in 1 .. Len(dw._order) |-> dw._clean_names[dw._order[ix]]]
    IN [sliceno |-> IF hl # "" THEN split_hash_slice(args[dw._clean_names[hl]])
                    ELSE split_cyc_slice,
        put |-> [c \in Range(dw._order) |-> args[names[index(dw._order, c)]]]]

\* split_list if it went by the first value of the row (C3 rests on the
\* round robin ignoring the content)
split_list_by_content(v) ==
    [sliceno |-> Hash(v[1]) % Slices,
     put |-> [c \in Range(dw._order) |-> v[index(dw._order, c)]]]

\* def split_list(v)
split_list(v) ==
    LET hl == dw.hashlabel IN
    [sliceno |-> IF hl # "" THEN split_hash_slice(v[index(dw._order, hl)])
                 ELSE split_cyc_slice,
     put |-> [c \in Range(dw._order) |-> v[index(dw._order, c)]]]

\* def split_dict(d)
split_dict(d) ==
    LET hl == dw.hashlabel IN
    [sliceno |-> IF hl # "" THEN split_hash_slice(d[hl]) ELSE split_cyc_slice,
     put |-> [c \in Range(dw._order) |-> d[c]]]

SplitSurfaces == {"split", "split_list", "split_dict"}

\* what a split function makes of a row: the slice and the values it
\* hands to that slice's writers
split_route(surface, values) ==
    CASE surface = "split" -> split(AsArgs(values))
      [] surface = "split_list" -> split_list(AsList(values))
      [] surface = "split_dict" -> split_dict(values)

\* a call of a split function the caller got from a getter
split_call(surface, values) ==
    LET r == split_route(surface, values)
        ws == allwriters[r.sliceno + 1]
        isopen == \A c \in DOMAIN ws : ws[c].open
    IN
    /\ Usable
    /\ dw.split
    /\ Len(written) < MaxWrites
    /\ dw' = IF dw.hashlabel = ""
             THEN [dw EXCEPT !.cyc = (dw.cyc + 1) % Slices] ELSE dw
    /\ files' = IF isopen THEN Put(files, ws, r.put) ELSE files
    /\ allwriters' = IF isopen
                     THEN [allwriters EXCEPT ![r.sliceno + 1] = Counted(ws, r.put)]
                     ELSE allwriters
    /\ written' = IF isopen
                  THEN Append(written, [row |-> values, sl |-> None,
                                        direct |-> FALSE])
                  ELSE written
    /\ UNCHANGED <<rewritten, called, daemon>>
    /\ UNCHANGED <<running, g_sliceno, writers, datasets, saved_by,
                   datasets_written, registry>>

-----------------------------------------------------------------------------
(* A meta_only writer: the caller puts the column files in place and       *)
(* tells the writer the line counts.                                       *)

\* the counts a caller passes to set_lines
LineCounts == -1 .. 1
\* what a caller puts in a column file
PlacedContents == {<<ParentVal>>}

\* how set_lines(sliceno, count) ends
set_lines_res == IF dw.meta_only THEN "ok" ELSE "AssertionError"

set_lines(sliceno, count) ==
    /\ Usable
    /\ dw' = IF dw.meta_only
             THEN [dw EXCEPT !._lens = DictSet(dw._lens, sliceno, count)]
             ELSE dw
    /\ UNCHANGED <<rewritten, called, daemon>>
    /\ UNCHANGED <<running, g_sliceno, writers, allwriters, files, datasets,
                   saved_by, datasets_written, registry, written>>

\* how set_minmax(sliceno, minmax) ends
set_minmax_res == IF dw.meta_only THEN "ok" ELSE "AssertionError"

\* set_minmax(sliceno, minmax): minmax maps column names to (min, max)
set_minmax(sliceno, minmax) ==
    /\ Usable
    /\ dw' = IF dw.meta_only
             THEN [dw EXCEPT !._minmax = DictSet(dw._minmax, sliceno, minmax)]
             ELSE dw
    /\ UNCHANGED <<rewritten, called, daemon>>
    /\ UNCHANGED <<running, g_sliceno, writers, allwriters, files, datasets,
                   saved_by, datasets_written, registry, written>>

\* the caller writes the file dw.column_filename(colname, sliceno) names
place_file(colname, sliceno, vals) ==
    /\ Usable
    /\ dw.meta_only
    /\ files' = DictSet(files, dw_column_filename(colname, sliceno), vals)
    /\ UNCHANGED <<rewritten, called, daemon>>
    /\ UNCHANGED <<running, g_sliceno, dw, writers, allwriters, datasets,
                   saved_by, datasets_written, registry, written>>

-----------------------------------------------------------------------------
(* Persisting a dataset: Dataset.new, Dataset.append, _append,             *)
(* _minmax_merge, _maybe_merge, _update_caches, _save.  The parent field   *)
(* of a record is a sequence: empty for None, one identity, or the pair    *)
(* merge stores.                                                           *)

\* Dataset(_new_dataset_marker, name)._data
EmptyDataset ==
    [hashlabel |-> "", columns |-> <<>>, previous |-> "", parent |-> None,
     lines |-> <<>>, cache |-> None, cache_distance |-> None]

\* _linefixup(lines) of a dict of line counts: every slice, and no other
\* key, must be there
_linefixup_ok(lens) == DOMAIN lens = SliceNos
_linefixup(lens) == [i \in 1 .. Slices |-> lens[i - 1]]

\* _minmax_merge(minmax)[n]: the extremes of column n over the slices that
\* tracked any
_minmax_merge(minmax, n) ==
    LET parts == {sl \in DOMAIN minmax :
                     n \in DOMAIN minmax[sl] /\ minmax[sl][n] # <<None, None>>}
    IN IF parts = {} THEN <<None, None>>
       ELSE <<Some(CHOOSE x \in {minmax[sl][n][1][1] : sl \in parts} :
                      \A sl \in parts : x <= minmax[sl][n][1][1]),
              Some(CHOOSE x \in {minmax[sl][n][2][1] : sl \in parts} :
                      \A sl \in parts : x >= minmax[sl][n][2][1])>>

\* _maybe_merge if a mean of exactly MergeLimit were too much (C27 rests
\* on the comparison being >)
MergeWantedBelow(sizes) == SumSeq(sizes) < MergeLimit * Slices

\* does _maybe_merge merge slice files of these sizes?  (true division)
MergeWanted(sizes) == ~(SumSeq(sizes) > MergeLimit * Slices)

\* _maybe_merge(n) on the columns cols and the files fs: the slice files of
\* a column whose mean size is at most MergeLimit become one file "m"
_maybe_merge(cols, fs, n) ==
    LET c == cols[n]
        fn(slot) == [c.location EXCEPT ![3] = slot]
        slicefiles == {fn(SliceStr(sl)) : sl \in SliceNos}
        sizes == [i \in 1 .. Slices |->
                     FileSize(fs[fn(SliceStr(i - 1))], c.type)]
    IN IF Slices < 2 THEN [res |-> "ok", cols |-> cols, fs |-> fs]
       ELSE IF ~(slicefiles \subseteq DOMAIN fs)
       THEN [res |-> "OSError", cols |-> cols, fs |-> fs]
       ELSE IF ~MergeWanted(sizes)
       THEN [res |-> "ok", cols |-> cols, fs |-> fs]
       ELSE [res |-> "ok",
             cols |-> [cols EXCEPT ![n] =
                          [c EXCEPT !.offsets = OffsetsOf(sizes, 0),
                                    !.location = fn("m")]],
             fs |-> [f \in ((DOMAIN fs) \ slicefiles) \cup {fn("m")} |->
                        IF f = fn("m")
                        THEN Concat([i \in 1 .. Slices |->
                                        fs[fn(SliceStr(i - 1))]])
                        ELSE fs[f]]]

\* the loop of _append over sorted(columns.items()): each column gets its
\* descriptor, then _maybe_merge; an error leaves the loop
RECURSIVE _append_columns(_, _, _, _)
_append_columns(todo, cols, fs, minmax) ==
    IF todo = <<>> THEN [res |-> "ok", cols |-> cols, fs |-> fs]
    ELSE LET n == Head(todo)
             mm == _minmax_merge(minmax, n)
             dc == DatasetColumn(dw.columns[n], dw._clean_names[n],
                                 <<job, dw.name, "%s", dw._clean_names[n]>>,
                                 mm[1], mm[2], None)
             m == _maybe_merge(DictSet(cols, n, dc), fs, n)
         IN IF m.res # "ok" THEN m
            ELSE _append_columns(Tail(todo), m.cols, m.fs, minmax)

\* Dataset(t) as the chain holds it: its unicode value and its _data
Dataset(ds, t) == [id |-> Dataset_unicode(t), data |-> ds[Pickle(t)]]

\* up to n rounds of the loop of Dataset.chain from the dataset object
\* current on, over the records ds; stop_ds is the unicode value of the
\* stop dataset ("" for none).  The result holds the datasets the rounds
\* appended and says how they ended: "ok" when the loop was left, "more"
\* with the next dataset object when a further round would follow.  (The
\* rounds are done in two halves.)
RECURSIVE chain_loop(_, _, _, _)
chain_loop(ds, current, n, stop_ds) ==
    IF n = 0 THEN [res |-> "more", chain |-> <<>>, current |-> current]
    ELSE IF n = 1
    THEN IF stop_ds # "" /\ current.id = stop_ds
         THEN [res |-> "ok", chain |-> <<>>, current |-> current]
         ELSE IF current.data.previous = ""
         THEN [res |-> "ok", chain |-> <<current>>, current |-> current]
         ELSE IF ~Exists(ds, current.data.previous)
         THEN [res |-> "NoSuchDatasetError", chain |-> <<>>,
               current |-> current]
         ELSE [res |-> "more", chain |-> <<current>>,
               current |-> Dataset(ds, current.data.previous)]
    ELSE LET a == chain_loop(ds, current, n \div 2, stop_ds)
             b == chain_loop(ds, a.current, n - (n \div 2), stop_ds)
         IN IF a.res # "more" THEN a
            ELSE [b EXCEPT !.chain = a.chain \o b.chain]

\* list.reverse()
Reversed(seq) == [i \in 1 .. Len(seq) |-> seq[Len(seq) + 1 - i]]

\* chain if it compared the datasets with stop_ds as the caller spelled it
\* (C14 rests on stop_ds being resolved to a dataset first)
chain_unresolved(ds, self, length, reverse, stop_ds) ==
    LET w == chain_loop(ds, self,
                        IF length >= 0 THEN length
                        ELSE Cardinality(DOMAIN ds) + 1, stop_ds)
    IN IF stop_ds # "" /\ ~Exists(ds, stop_ds)
       THEN [res |-> "NoSuchDatasetError", chain |-> <<>>]
       ELSE IF w.res = "NoSuchDatasetError"
       THEN [res |-> w.res, chain |-> <<>>]
       ELSE IF w.res = "more" /\ length < 0
       THEN [res |-> "never returns", chain |-> <<>>]
       ELSE [res |-> "ok",
             chain |-> IF reverse THEN w.chain ELSE Reversed(w.chain)]

\* self.chain(length, reverse, stop_ds) of the dataset object self: the
\* loop runs until length datasets are collected; a loop that no length
\* ends and that is not left after one round more than there are datasets
\* never returns
chain(ds, self, length, reverse, stop_ds) ==
    IF stop_ds # "" /\ ~Exists(ds, stop_ds)
    THEN [res |-> "NoSuchDatasetError", chain |-> <<>>]
    ELSE LET w == chain_loop(ds, self,
                             IF length >= 0 THEN length
                             ELSE Cardinality(DOMAIN ds) + 1,
                             IF stop_ds = "" THEN ""
                             ELSE Dataset_unicode(stop_ds))
         IN IF w.res = "NoSuchDatasetError"
            THEN [res |-> w.res, chain |-> <<>>]
            ELSE IF w.res = "more" /\ length < 0
            THEN [res |-> "never returns", chain |-> <<>>]
            ELSE [res |-> "ok",
                  chain |-> IF reverse THEN w.chain ELSE Reversed(w.chain)]

\* _update_caches of the dataset object with the record d, which is not
\* saved yet
_update_caches(d, ds) ==
    IF d.previous = ""
    THEN [d EXCEPT !.cache = None, !.cache_distance = None]
    ELSE LET p == ds[Pickle(d.previous)]
             cache_distance == (IF p.cache_distance = None THEN 1
                                ELSE p.cache_distance[1]) + 1
             self == [id |-> "", data |-> [d EXCEPT !.cache = None,
                                                  !.cache_distance = None]]
             c == chain(ds, self, CacheStride, FALSE, "").chain
         IN IF cache_distance = CacheStride
            THEN [d EXCEPT !.cache_distance = Some(0),
                           !.cache = Some(SubSeq(c, 1, Len(c) - 1))]
            ELSE [d EXCEPT !.cache = None,
                           !.cache_distance = Some(cache_distance)]

\* the history of the records saved over, after data is saved under id: a
\* save that puts another record where one was is noted
Rewrites(id, data) ==
    IF id \in DOMAIN datasets /\ datasets[id] # data
    THEN rewritten \cup {id} ELSE rewritten

\* the identity under which _save persists the writer's dataset
DsId == FullName(job, dsname)

\* _append if it kept the parent field of the record it extends (C10
\* rests on the field being set)
_append_orphan(d, self_id, minmax) ==
    LET d1 == [d EXCEPT !.previous = _dsid(dw.previous)]
        a == _append_columns(SortedCols(DOMAIN dw.columns), d1.columns,
                             files, minmax)
    IN [res |-> a.res, fs |-> a.fs,
        data |-> _update_caches([d1 EXCEPT !.columns = a.cols], datasets)]

\* _append(columns, filenames, minmax, ..., previous, name) on the record
\* d of the dataset object; self_id is jobid/name of that object, "" for
\* a new one; minmax is the writer's _minmax after its close
_append(d, self_id, minmax) ==
    LET d1 == [d EXCEPT !.parent = IF self_id # "" /\ self_id # DsId
                                   THEN <<self_id>> ELSE d.parent,
                        !.previous = _dsid(dw.previous)]
        a == _append_columns(SortedCols(DOMAIN dw.columns), d1.columns,
                             files, minmax)
    IN [res |-> a.res, fs |-> a.fs,
        data |-> _update_caches([d1 EXCEPT !.columns = a.cols], datasets)]

\* Dataset.new(columns, filenames, lines, minmax, hashlabel=..., ...)
Dataset_new(lens, minmax) ==
    IF dw.hashlabel # "" /\ dw.hashlabel \notin DOMAIN dw.columns
    THEN [res |-> "AssertionError", fs |-> files, data |-> EmptyDataset]
    ELSE IF ~_linefixup_ok(lens)
    THEN [res |-> "AssertionError", fs |-> files, data |-> EmptyDataset]
    ELSE _append([EmptyDataset EXCEPT !.lines = _linefixup(lens),
                                      !.hashlabel = dw.hashlabel], "",
                 minmax)

\* is the hashlabel_override argument of append true?  The writer keeps
\* "hashlabel_override," : a 1-tuple, and a non-empty tuple is true
Truthy(tuple) == Len(tuple) > 0

\* Dataset(parent).append(columns, filenames, lines, minmax,
\* hashlabel=..., hashlabel_override=..., ...)
Dataset_append(lens, minmax) ==
    LET p == datasets[dw.parent]
        hl_ok == Truthy(dw.hashlabel_override) \/ dw.hashlabel = ""
                 \/ p.hashlabel = dw.hashlabel
        d == IF Truthy(dw.hashlabel_override)
             THEN [p EXCEPT !.hashlabel = dw.hashlabel] ELSE p
    IN IF ~hl_ok \/ ~_linefixup_ok(lens)
       THEN [res |-> "AssertionError", fs |-> files, data |-> p]
       ELSE IF _linefixup(lens) # p.lines
       THEN [res |-> "AssertionError", fs |-> files, data |-> p]
       ELSE _append(d, dw.parent, minmax)

-----------------------------------------------------------------------------
(* DatasetWriter.finish and DatasetWriter.discard                          *)

\* what finish() would persist, after close() left the line counts lens
\* and the extremes minmax
finish_save(lens, minmax) ==
    IF dw.parent # "" THEN Dataset_append(lens, minmax)
    ELSE Dataset_new(lens, minmax)

\* how finish() ends
finish_res ==
    IF ~(running = dw._running \/ running = "synthesis")
    THEN "AssertionError"
    ELSE IF close.res # "ok" THEN close.res
    ELSE IF Cardinality(DOMAIN close.lens) # Slices THEN "AssertionError"
    ELSE IF finish_save(close.lens, close.minmax).res # "ok"
    THEN finish_save(close.lens, close.minmax).res
    ELSE IF dw.name \notin registry THEN "KeyError"
    ELSE "ok"

\* finish if it noted the name before it took the writer off the registry
\* (C32 rests on the order of the two)
finish_appending ==
    LET c == close
        d1 == [dw EXCEPT !._lens = c.lens, !._minmax = c.minmax]
        r == finish_save(c.lens, c.minmax)
    IN
    /\ UNCHANGED <<running, g_sliceno, written, called, daemon>>
    /\ rewritten' = IF finish_res \in {"ok", "KeyError"}
                     THEN Rewrites(DsId, r.data) ELSE rewritten
    /\ IF ~(running = dw._running \/ running = "synthesis")
       THEN UNCHANGED <<dw, writers, allwriters, files, datasets, saved_by,
                        datasets_written, registry>>
       ELSE /\ dw' = d1
            /\ writers' = c.writers
            /\ allwriters' = c.allwriters
            /\ IF c.res # "ok" \/ Cardinality(DOMAIN c.lens) # Slices
               THEN UNCHANGED <<files, datasets, saved_by, datasets_written,
                                registry>>
               ELSE IF r.res # "ok"
               THEN /\ files' = r.fs
                    /\ UNCHANGED <<datasets, saved_by, datasets_written,
                                   registry>>
               ELSE /\ files' = r.fs
                    /\ datasets' = DictSet(datasets, DsId, r.data)
                    /\ saved_by' = DictSet(saved_by, DsId, "finish")
                    /\ registry' = registry \ {dw.name}
                    /\ datasets_written' = Append(datasets_written, dw.name)

finish ==
    LET c == close
        d1 == [dw EXCEPT !._lens = c.lens, !._minmax = c.minmax]
        r == finish_save(c.lens, c.minmax)
    IN
    /\ UNCHANGED <<running, g_sliceno, written, called, daemon>>
    /\ rewritten' = IF finish_res \in {"ok", "KeyError"}
                     THEN Rewrites(DsId, r.data) ELSE rewritten
    /\ IF ~(running = dw._running \/ running = "synthesis")
       THEN UNCHANGED <<dw, writers, allwriters, files, datasets, saved_by,
                        datasets_written, registry>>
       ELSE /\ dw' = d1
            /\ writers' = c.writers
            /\ allwriters' = c.allwriters
            /\ IF c.res # "ok" \/ Cardinality(DOMAIN c.lens) # Slices
               THEN UNCHANGED <<files, datasets, saved_by, datasets_written,
                                registry>>
               ELSE IF r.res # "ok"
               THEN /\ files' = r.fs
                    /\ UNCHANGED <<datasets, saved_by, datasets_written,
                                   registry>>
               ELSE /\ files' = r.fs
                    /\ datasets' = DictSet(datasets, DsId, r.data)
                    /\ saved_by' = DictSet(saved_by, DsId, "finish")
                    /\ IF dw.name \in registry
                       THEN /\ registry' = registry \ {dw.name}
                            /\ datasets_written' =
                                  Append(datasets_written, dw.name)
                       ELSE UNCHANGED <<datasets_written, registry>>

\* how discard() ends
discard_res == IF dw.name \in registry THEN "ok" ELSE "KeyError"

\* discard(): the writer leaves the registry and its directory is removed
discard ==
    /\ UNCHANGED <<rewritten, called, daemon>>
    /\ UNCHANGED <<running, g_sliceno, dw, writers, allwriters,
                   datasets_written, written>>
    /\ IF dw.name \in registry
       THEN /\ registry' = registry \ {dw.name}
            /\ files' = [fn \in {f \in DOMAIN files :
                                    ~(f[1] = job /\ f[2] = dw.name)} |->
                            files[fn]]
            /\ datasets' = [id \in (DOMAIN datasets) \ {DsId} |-> datasets[id]]
            /\ saved_by' = [id \in (DOMAIN saved_by) \ {DsId} |-> saved_by[id]]
       ELSE UNCHANGED <<registry, files, datasets, saved_by>>

-----------------------------------------------------------------------------
(* Dataset.link_to_here and Dataset.merge, on the persisted records.       *)

\* the stand-in for the default argument _no_override
_no_override == "_no_override"

\* how link_to_here(name, column_filter, override_previous) of the dataset
\* self ends; an empty column_filter is the default None
link_to_here_res(self, column_filter, override_previous) ==
    LET d == datasets[self]
        filtered_columns == DOMAIN d.columns \cap column_filter
    IN IF column_filter # {}
          /\ (column_filter \ filtered_columns # {} \/ filtered_columns = {})
       THEN "AssertionError"
       ELSE IF override_previous \notin {_no_override, ""}
               /\ ~Exists(datasets, _dsid(override_previous))
       THEN "NoSuchDatasetError"
       ELSE "ok"

\* the record link_to_here would save if it kept every column (C28 rests
\* on the columns being those of the filter)
link_to_here_data_unfiltered(self, column_filter, override_previous) ==
    LET d == datasets[self]
        d2 == IF override_previous # _no_override
              THEN _update_caches(
                       [d EXCEPT !.previous = _dsid(override_previous)],
                       datasets)
              ELSE d
    IN [d2 EXCEPT !.parent = <<self>>]

\* the record link_to_here saves
link_to_here_data(self, column_filter, override_previous) ==
    LET d == datasets[self]
        d1 == IF column_filter # {}
              THEN [d EXCEPT !.columns =
                       [k \in DOMAIN d.columns \cap column_filter |->
                           d.columns[k]]]
              ELSE d
        d2 == IF override_previous # _no_override
              THEN _update_caches(
                       [d1 EXCEPT !.previous = _dsid(override_previous)],
                       datasets)
              ELSE d1
    IN [d2 EXCEPT !.parent = <<self>>]

link_to_here(self, name, column_filter, override_previous) ==
    /\ IF link_to_here_res(self, column_filter, override_previous) = "ok"
       THEN /\ datasets' = DictSet(datasets, FullName(job, name),
                              link_to_here_data(self, column_filter,
                                                override_previous))
            /\ saved_by' = DictSet(saved_by, FullName(job, name),
                                   "link_to_here")
            /\ datasets_written' = Append(datasets_written, name)
       ELSE UNCHANGED <<datasets, saved_by, datasets_written>>
    /\ rewritten' = IF link_to_here_res(self, column_filter,
                                        override_previous) = "ok"
                     THEN Rewrites(FullName(job, name),
                                   link_to_here_data(self, column_filter,
                                                     override_previous))
                     ELSE rewritten
    /\ UNCHANGED <<called, daemon>>
    /\ UNCHANGED <<running, g_sliceno, dw, writers, allwriters, files,
                   registry, written>>

\* parents(ds, tips): the ancestors without a parent that the datasets
\* ids descend from; path holds the datasets the recursion is in, and a
\* dataset that is its own ancestor ends the recursion of the source with
\* a RecursionError, which stands among the tips here
RECURSIVE parents(_, _, _)
parents(ds, ids, path) ==
    IF ids = <<>> THEN {}
    ELSE (IF Head(ids) \in path THEN {"RecursionError"}
          ELSE IF ds[Head(ids)].parent # None
          THEN parents(ds, ds[Head(ids)].parent, path \cup {Head(ids)})
          ELSE {Head(ids)})
         \cup parents(ds, Tail(ids), path)

\* how merge would end if it did not compare the line counts (C30 rests
\* on the comparison)
merge_res_any_lines(self, other, previous, allow_unrelated) ==
    LET a == datasets[self]
        b == datasets[other]
        tips_a == parents(datasets, <<self>>, {})
        tips_b == parents(datasets, <<other>>, {})
    IN IF self = other THEN "DatasetUsageError"
       ELSE IF Cardinality({a.hashlabel, b.hashlabel} \ {""}) > 1
       THEN "DatasetUsageError"
       ELSE IF ~allow_unrelated
               /\ ("RecursionError" \in tips_a \/ "RecursionError" \in tips_b)
       THEN "RecursionError"
       ELSE IF ~allow_unrelated /\ tips_a \cap tips_b = {}
       THEN "DatasetUsageError"
       ELSE IF previous # "" /\ ~Exists(datasets, previous)
       THEN "NoSuchDatasetError"
       ELSE "ok"

\* how self.merge(other, name, previous, allow_unrelated) ends
merge_res(self, other, previous, allow_unrelated) ==
    LET a == datasets[self]
        b == datasets[other]
        tips_a == parents(datasets, <<self>>, {})
        tips_b == parents(datasets, <<other>>, {})
    IN IF self = other THEN "DatasetUsageError"
       ELSE IF a.lines # b.lines THEN "DatasetUsageError"
       ELSE IF Cardinality({a.hashlabel, b.hashlabel} \ {""}) > 1
       THEN "DatasetUsageError"
       ELSE IF ~allow_unrelated
               /\ ("RecursionError" \in tips_a \/ "RecursionError" \in tips_b)
       THEN "RecursionError"
       ELSE IF ~allow_unrelated /\ tips_a \cap tips_b = {}
       THEN "DatasetUsageError"
       ELSE IF previous # "" /\ ~Exists(datasets, previous)
       THEN "NoSuchDatasetError"
       ELSE "ok"

\* the record merge would save if the columns of self took priority (C29
\* rests on those of other replacing them)
merge_data_self_first(self, other, previous) ==
    LET a == datasets[self]
        b == datasets[other]
    IN _update_caches(
           [a EXCEPT !.columns = [k \in DOMAIN a.columns \cup DOMAIN b.columns
                                     |-> IF k \in DOMAIN a.columns
                                         THEN a.columns[k] ELSE b.columns[k]],
                     !.previous = previous,
                     !.parent = <<self, other>>],
           datasets)

\* the record merge saves: the columns of other take priority
merge_data(self, other, previous) ==
    LET a == datasets[self]
        b == datasets[other]
    IN _update_caches(
           [a EXCEPT !.columns = [k \in DOMAIN a.columns \cup DOMAIN b.columns
                                     |-> IF k \in DOMAIN b.columns
                                         THEN b.columns[k] ELSE a.columns[k]],
                     !.previous = previous,
                     !.parent = <<self, other>>],
           datasets)

merge(self, other, name, previous, allow_unrelated) ==
    /\ IF merge_res(self, other, previous, allow_unrelated) = "ok"
       THEN /\ datasets' = DictSet(datasets, FullName(job, name),
                                   merge_data(self, other, previous))
            /\ saved_by' = DictSet(saved_by, FullName(job, name), "merge")
       ELSE UNCHANGED <<datasets, saved_by>>
    /\ rewritten' = IF merge_res(self, other, previous, allow_unrelated) = "ok"
                     THEN Rewrites(FullName(job, name),
                                   merge_data(self, other, previous))
                     ELSE rewritten
    /\ UNCHANGED <<called, daemon>>
    /\ UNCHANGED <<running, g_sliceno, dw, writers, allwriters, files,
                   datasets_written, registry, written>>

-----------------------------------------------------------------------------
(* Reading a persisted dataset: _column_iterator, _iterator and the plain  *)
(* iterate (every column, no filters, translators, range or rehash).       *)

\* one_slice(sliceno) of _column_iterator: the values column col of the
\* record d holds for a slice; a merged column is read from its offset,
\* lines[sliceno] values at most
one_slice(d, fs, col, sliceno) ==
    LET dc == d.columns[col]
        fn == column_filename(d, col, Some(sliceno))
    IN IF fn \notin DOMAIN fs THEN [res |-> "IOError", vals |-> <<>>]
       ELSE [res |-> "ok",
             vals |-> IF dc.offsets # None
                      THEN ReadFile(fs[fn], dc.backing_type,
                                    dc.offsets[sliceno + 1],
                                    d.lines[sliceno + 1])
                      ELSE ReadFile(fs[fn], dc.backing_type, 0, -1)]

\* _column_iterator if it chained the slices whatever sliceno is (C20
\* rests on a plan entry yielding its slice only)
_column_iterator_chained(d, fs, sliceno, col) ==
    Concat([i \in 1 .. Slices |-> one_slice(d, fs, col, i - 1).vals])

\* _column_iterator(sliceno, col): one slice, or all of them chained
_column_iterator(d, fs, sliceno, col) ==
    IF sliceno = None
    THEN Concat([i \in 1 .. Slices |-> one_slice(d, fs, col, i - 1).vals])
    ELSE one_slice(d, fs, col, sliceno[1]).vals

\* izip over the column iterators its: the rows, as many as the shortest
\* column has
izip(its) ==
    LET n == IF its = <<>> THEN 0
             ELSE CHOOSE m \in {Len(its[i]) : i \in DOMAIN its} :
                     \A i \in DOMAIN its : m <= Len(its[i])
    IN [r \in 1 .. n |-> [i \in DOMAIN its |-> its[i][r]]]

\* _iterator(sliceno, columns) zipped: the rows of one slice
slice_rows(d, fs, sliceno, columns) ==
    izip([i \in DOMAIN columns |->
             _column_iterator(d, fs, Some(sliceno), columns[i])])

\* can every column file the record d names be opened?
readable(d, fs) ==
    \A col \in DOMAIN d.columns, sliceno \in SliceNos :
        one_slice(d, fs, col, sliceno).res = "ok"

\* Dataset.iterate(sliceno, columns) without filters, translators, range
\* or rehash: no columns means all of them, sorted; a dataset without
\* lines is skipped; sliceno None chains the slices
iterate(d, fs, sliceno, columns) ==
    LET cols == IF columns = <<>> THEN SortedCols(DOMAIN d.columns)
                ELSE columns
    IN IF SumSeq(d.lines) = 0 THEN <<>>
       ELSE IF sliceno = None
       THEN Concat([i \in 1 .. Slices |-> slice_rows(d, fs, i - 1, cols)])
       ELSE slice_rows(d, fs, sliceno[1], cols)

-----------------------------------------------------------------------------
(* The specifications.                                                     *)

\* the types a caller declares a column with
CallerTypes(colname) == {TypeOf(colname), "nosuch"}
\* the names link_to_here and merge save under
LinkNames == {"link"}
MergeNames == {"merged"}
\* what the job passes for previous when it merges: nothing, or a dataset
\* that does not exist
MergeArgs == {"", "nosuch"}
ColumnFilters == {{}, {"v"}, {"k", "p"}}

\* the job links and merges once its writer is done with, and persists at
\* most MaxDatasets datasets
MayPersist == ~Usable /\ Cardinality(DOMAIN datasets) < MaxDatasets

Next ==
    \/ \E colname \in ColNames : \E coltype \in CallerTypes(colname) :
          add(colname, coltype)
    \/ \E sliceno \in SliceArgs : set_slice(sliceno)
    \/ enable_hash_discard
    \/ \E surface \in WriteSurfaces, values \in Rows :
          write_call(surface, values)
    \/ \E colname \in DOMAIN dw.columns, value \in Vals :
          writer_write(colname, value)
    \/ \E getter \in SplitGetters : get_split(getter)
    \/ \E surface \in SplitSurfaces, values \in Rows :
          split_call(surface, values)
    \/ \E sliceno \in SliceNos, count \in LineCounts :
          set_lines(sliceno, count)
    \/ \E colname \in DOMAIN dw.columns, sliceno \in SliceNos,
          vals \in PlacedContents : place_file(colname, sliceno, vals)
    \/ finish
    \/ \E self \in DOMAIN datasets, name \in LinkNames,
          column_filter \in ColumnFilters,
          override_previous \in {_no_override, ParentId} :
          /\ MayPersist
          /\ link_to_here(self, name, column_filter, override_previous)
    \/ \E self \in DOMAIN datasets, other \in DOMAIN datasets,
          name \in MergeNames, previous \in MergeArgs,
          allow_unrelated \in BOOLEAN :
          /\ MayPersist
          /\ merge(self, other, name, previous, allow_unrelated)

\* a writer that is filled and finished within one phase of the job, and
\* the datasets the job then links and merges
Spec == Init /\ [][Next]_vars

\* the life of a writer over the phases of the job, without the rows
NextLifecycle ==
    \/ NextPhase
    \/ \E colname \in ColNames : \E coltype \in CallerTypes(colname) :
          add(colname, coltype)
    \/ \E sliceno \in SliceArgs : set_slice(sliceno)
    \/ \E getter \in SplitGetters : get_split(getter)
    \/ enable_hash_discard
    \/ finish
    \/ discard

SpecLifecycle == Init /\ [][NextLifecycle]_vars

-----------------------------------------------------------------------------
(* The properties.                                                         *)

Count(seq, x) == Cardinality({i \in DOMAIN seq : seq[i] = x})
SameMultiset(a, b) ==
    /\ Len(a) = Len(b)
    /\ \A i \in DOMAIN a : Count(a, a[i]) = Count(b, a[i])

\* the record finish persisted for the writer, when there is one
Finished == DsId \in DOMAIN datasets /\ saved_by[DsId] = "finish"
\* a row of the history as the tuple iterate yields for the columns cols
RowTuple(values, cols) == [i \in DOMAIN cols |-> values[cols[i]]]
\* the history as tuples over the writer's columns
WrittenRows ==
    LET cols == SortedCols(DOMAIN dw.columns)
    IN [i \in DOMAIN written |-> RowTuple(written[i].row, cols)]
\* the writer was fed through its write or split functions only
OnlyRows == \A i \in DOMAIN written : ~written[i].direct
\* ceil((n - s) / Slices) for n >= 0 and a slice s
CeilShare(n, s) == (n - s + Slices - 1) \div Slices
\* the rows of the history that a round robin from slice 0 puts in slice s
RoundRobinRows(s) ==
    LET ks == {k \in DOMAIN written : (k - 1) % Slices = s}
        nth[i \in 0 .. Cardinality(ks)] ==
            IF i = 0 THEN 0
            ELSE CHOOSE k \in ks : k > nth[i - 1]
                    /\ \A j \in ks : j > nth[i - 1] => k <= j
    IN [i \in 1 .. Cardinality(ks) |-> written[nth[i]].row]
\* a row whose hashlabel value belongs to another slice than the one set
WrongSlice(values) ==
    /\ dw.hashlabel \in DOMAIN values
    /\ Hash(values[dw.hashlabel]) % Slices # dw.sliceno[1]
\* the per-slice write functions exist and their writers are open
CanWrite ==
    /\ dw.has_write
    /\ writers # <<>>
    /\ \A c \in DOMAIN writers : writers[c].open

\* C1: a dataset built by writing rows through the write functions of a
\* writer (per slice over all slices, or split) and finishing it is read
\* back whole: iterate(None) yields the written rows as a multiset, and
\* iterate(s) yields lines[s] rows for every slice s.
C1_RoundTrip ==
    (Finished /\ ~dw.meta_only /\ OnlyRows) =>
        LET d == datasets[DsId]
            cols == SortedCols(DOMAIN dw.columns)
        IN /\ readable(d, files)
           /\ SameMultiset(iterate(d, files, None, cols), WrittenRows)
           /\ \A s \in SliceNos :
                 Len(iterate(d, files, Some(s), <<>>)) = d.lines[s + 1]

\* C1, for the writers whose write functions check the slice: every
\* writer but the one whose only column is its hashlabel
C1_RoundTripChecked ==
    (Len(dw._order) = 1 => dw.hashlabel = "") => C1_RoundTrip

\* C2: in a dataset finished by a writer with a hashlabel that wrote the
\* rows itself, every value the hashlabel column holds in slice s hashes
\* to s.
C2_HashPartition ==
    (Finished /\ ~dw.meta_only /\ dw.hashlabel # "") =>
        \A s \in SliceNos :
            LET vals == _column_iterator(datasets[DsId], files, Some(s),
                                         dw.hashlabel)
            IN \A i \in DOMAIN vals : Hash(vals[i]) % Slices = s

C2_Witness ==
    /\ Finished /\ ~dw.meta_only /\ dw.hashlabel # "" /\ dw._started = 1
    /\ \A s \in SliceNos : datasets[DsId].lines[s + 1] > 0

\* C3: split functions without a hashlabel deal the rows round robin: the
\* k-th row of the writer goes to slice (k-1) mod slices whatever it holds,
\* so after n rows slice s holds ceil((n - s) / slices) of them, and those
\* counts are the lines of the finished dataset.
C3_RoundRobin ==
    (dw.split /\ dw.hashlabel = "") =>
        /\ Usable =>
              \A s \in SliceNos, c \in DOMAIN dw.columns :
                  /\ files[dw_column_filename(c, s)]
                        = [i \in DOMAIN RoundRobinRows(s) |->
                              RoundRobinRows(s)[i][c]]
                  /\ allwriters[s + 1][c].count
                        = CeilShare(Len(written), s)
        /\ Finished =>
              \A s \in SliceNos :
                  datasets[DsId].lines[s + 1] = CeilShare(Len(written), s)

C3_Witness ==
    /\ Finished /\ dw.split /\ dw.hashlabel = ""
    /\ Len(written) = Slices + 1
    /\ \E i, j \in DOMAIN written : written[i].row # written[j].row
    /\ datasets[DsId].lines[1] = 2

\* C4: the three write functions make the same of every row (the same
\* values to the same columns, the same error, or the same silent drop),
\* and so do the three split functions.
C4_SurfacesAgree ==
    /\ CanWrite =>
          \A values \in Rows :
              /\ write_outcome("write", values)
                    = write_outcome("write_dict", values)
              /\ write_outcome("write_list", values)
                    = write_outcome("write_dict", values)
    /\ dw.split =>
          \A values \in Rows :
              /\ split_route("split", values) = split_route("split_dict", values)
              /\ split_route("split_list", values)
                    = split_route("split_dict", values)

\* C4, for the writers whose write functions check the slice
C4_SurfacesAgreeChecked ==
    (Len(dw._order) = 1 => dw.hashlabel = "") => C4_SurfacesAgree

\* C5: with a hashlabel, a write function given a row of another slice
\* appends nothing and raises DatasetUsageError, or, after
\* enable_hash_discard since the last set_slice, appends nothing and
\* returns; a row is never dropped silently otherwise.
C5_WrongSliceRaises ==
    (CanWrite /\ dw.hashlabel # "") =>
        \A surface \in WriteSurfaces, values \in Rows :
            WrongSlice(values) =>
                write_outcome(surface, values)
                    = IF dw.discard THEN Wrote(<<>>)
                      ELSE Raise("DatasetUsageError")

\* C5, for the writers whose write functions check the slice
C5_WrongSliceRaisesChecked ==
    Len(dw._order) # 1 => C5_WrongSliceRaises

\* C6: the modes of a writer are never mixed: after a set_slice that
\* succeeded every getter of a split function fails, after a split
\* function was obtained every set_slice fails, and a mode once chosen
\* stays.
C6_ModesNeverMixed ==
    /\ [](/\ dw._started = 1 => get_split_res # "ok"
          /\ (dw.split \/ dw._started = 2) => set_slice_res # "ok")
    /\ [][dw._started # 0 => dw'._started = dw._started]_vars

C6_Witness ==
    /\ dw._started = 1 /\ dw.has_write
    /\ running = "prepare"
    /\ get_split_res = "AssertionError"

\* C7: add succeeds only in the phase the writer was made in, before the
\* writer is started and for a name not yet declared; where it fails the
\* declared columns and their order stay as they are.
C7_AddOnlyBeforeStart ==
    /\ [](\A colname \in ColNames : \A coltype \in CallerTypes(colname) :
             add_res(colname, coltype) = "ok" =>
                 /\ dw._started = 0
                 /\ running = dw._running
                 /\ colname \notin DOMAIN dw.columns)
    /\ [](/\ Range(dw._order) = DOMAIN dw.columns
          /\ Len(dw._order) = Cardinality(DOMAIN dw.columns))
    /\ [][(dw._started # 0 \/ running # dw._running) =>
             /\ dw'.columns = dw.columns
             /\ dw'._order = dw._order]_vars
    /\ [][/\ SubSeq(dw'._order, 1, Len(dw._order)) = dw._order
          /\ \A c \in DOMAIN dw.columns :
                c \in DOMAIN dw'.columns /\ dw'.columns[c] = dw.columns[c]]_vars

C7_Witness ==
    /\ running = "analysis" /\ dw._started = 1
    /\ dw._order = <<"v", "k">>
    /\ add_res("k", TypeOf("k")) = "AssertionError"

C8_FinishLinesCounted ==
    /\ finish_res = "ok" => SliceNos \subseteq DOMAIN close.lens
    /\ (\E s \in SliceNos : s \notin DOMAIN close.lens) =>
          finish_res \notin {"ok", "KeyError"}
    /\ Usable => DsId \notin DOMAIN datasets
    /\ (Finished /\ ~dw.meta_only) =>
          LET lines == datasets[DsId].lines
          IN /\ Len(lines) = Slices
             /\ \A s \in SliceNos :
                   lines[s + 1] >= 0 /\ lines[s + 1] = dw._lens[s]

\* every column of the record id holds lines[s] values in every slice s
ColumnsHoldLines(id) ==
    \A col \in DOMAIN datasets[id].columns, s \in SliceNos :
        LET it == one_slice(datasets[id], files, col, s)
        IN it.res = "ok" /\ Len(it.vals) = datasets[id].lines[s + 1]

\* do the columns of the record id come from files a meta_only writer of
\* this job was told about, directly or through link_to_here and merge?
RECURSIVE FromMetaOnlyVia(_, _)
FromMetaOnlyVia(id, path) ==
    \/ id = DsId /\ dw.meta_only
    \/ /\ saved_by[id] # "finish"
       /\ id \notin path
       /\ \E i \in DOMAIN datasets[id].parent :
             FromMetaOnlyVia(datasets[id].parent[i], path \cup {id})
FromMetaOnly(id) == FromMetaOnlyVia(id, {})

\* C9: in every persisted record, whatever persisted it, every column
\* holds lines[s] rows in every slice s; and closing writers whose counts
\* differ fails.
C9_ColumnsHoldLines ==
    /\ \A id \in DOMAIN datasets : ColumnsHoldLines(id)
    /\ (writers # <<>> /\ ~_close_ok(writers) /\ dw._started < 2) =>
          close.res = "AssertionError"

\* C9, for the records whose columns the writers counted themselves
C9_ColumnsHoldLinesCounted ==
    /\ \A id \in DOMAIN datasets : ~FromMetaOnly(id) => ColumnsHoldLines(id)
    /\ (writers # <<>> /\ ~_close_ok(writers) /\ dw._started < 2) =>
          close.res = "AssertionError"

\* C10: the record a writer with a parent finishes has the parent's
\* column descriptors, as they are, for the columns the writer did not
\* declare, and the writer's own columns for those it declared; its parent
\* field names the parent and its lines are the parent's.
C10_ParentExtended ==
    (Finished /\ dw.parent # "") =>
        LET d == datasets[DsId]
            p == datasets[dw.parent]
        IN /\ DOMAIN d.columns = DOMAIN p.columns \cup DOMAIN dw.columns
           /\ \A c \in DOMAIN p.columns \ DOMAIN dw.columns :
                 d.columns[c] = p.columns[c]
           /\ \A c \in DOMAIN dw.columns :
                 /\ d.columns[c].type = dw.columns[c]
                 /\ d.columns[c].name = dw._clean_names[c]
                 /\ d.columns[c].location[1] = job
                 /\ d.columns[c].location[2] = dw.name
           /\ d.parent = <<dw.parent>>
           /\ d.lines = p.lines
           /\ p = ParentDataset

C10_Witness ==
    /\ Finished /\ dw.parent = ParentId
    /\ DOMAIN dw.columns = {"k", "v"}
    /\ datasets[DsId].columns["p"] = ParentColumn("p")
    /\ datasets[DsId].columns["v"] # ParentColumn("v")


\* C11: a writer with a parent and a hashlabel other than the parent's,
\* made with hashlabel_override left at False, does not finish: no record
\* is persisted for it.
C11_MismatchFails ==
    (/\ dw.parent # ""
     /\ dw.hashlabel # ""
     /\ dw.hashlabel # datasets[dw.parent].hashlabel
     /\ dw.hashlabel_override[1] = FALSE)
    => /\ DsId \notin DOMAIN datasets
       /\ finish_res # "ok"

\* what finish does with the hashlabel instead: the 1-tuple the writer
\* keeps is true whatever the argument was, so the record always gets the
\* writer's hashlabel, also when that is None
C11_HashlabelReplaced ==
    (Finished /\ dw.parent # "") =>
        datasets[DsId].hashlabel = dw.hashlabel


-----------------------------------------------------------------------------
(* A chain of datasets: the jobs Q1, Q2, ... each exposed the dataset of   *)
(* job P under their own name, chained to the one before; this job         *)
(* continues the chain with its writer, with link_to_here and with merge,  *)
(* and walks it with Dataset.chain.                                        *)

\* the identity of the dataset of the i-th earlier job
PriorId(i) == FullName(PriorJob(i), "default")

\* the record of the i-th of them:
\* Dataset(ParentId).link_to_here(override_previous=...), where the
\* dataset before it in a chain shorter than CacheStride is i - 1
\* datasets from the start of the chain
PriorRecord(i) ==
    LET p == [ParentDataset EXCEPT
                 !.cache_distance = IF i > 2 THEN Some(i - 1) ELSE None]
        d == [ParentDataset EXCEPT
                 !.previous = IF i = 1 THEN "" ELSE _dsid(PriorJob(i - 1))]
    IN [_update_caches(d, (PriorId(i - 1) :> p)) EXCEPT
           !.parent = <<ParentId>>]

\* the records the earlier jobs left behind
PriorRecords ==
    [id \in {ParentId} \cup {PriorId(i) : i \in 1 .. PriorChain} |->
        IF id = ParentId THEN ParentDataset
        ELSE PriorRecord(CHOOSE i \in 1 .. PriorChain : PriorId(i) = id)]

\* the newest dataset of the earlier chain, as a caller spells it
LastPrior == PriorJob(PriorChain)

InitChain ==
    /\ running = "prepare"
    /\ g_sliceno = None
    /\ datasets = PriorRecords
    /\ saved_by = [id \in DOMAIN datasets |->
                      IF id = ParentId THEN "finish" ELSE "link_to_here"]
    /\ files = ParentFiles
    /\ \E previous \in {"", LastPrior} :
          dw = [NewWriter(running, "", ParentId, TRUE, Some(0),
                          datasets[ParentId].columns)
                   EXCEPT !.previous = _dsid(previous)]
    /\ writers = <<>>
    /\ allwriters = <<>>
    /\ datasets_written = <<>>
    /\ registry = {dsname}
    /\ written = <<>>
    /\ rewritten = {}
    /\ called = NoCall
    /\ NoDaemon

\* ds.chain(length, reverse, stop_ds) for the dataset a caller spells self
chain_call(self, length, reverse, stop_ds) ==
    /\ Exists(datasets, self)
    /\ called' = [op |-> "chain", self |-> self, length |-> length,
                  reverse |-> reverse, stop_ds |-> stop_ds,
                  out |-> chain(datasets, Dataset(datasets, self), length,
                                reverse, stop_ds)]
    /\ UNCHANGED <<running, g_sliceno, dw, writers, allwriters, files,
                   datasets, saved_by, datasets_written, registry, written,
                   rewritten, daemon>>

\* what the job of the chain links, merges and walks, once its writer is
\* done with
ChainNames == {"a"}
ChainPrevious == {"", LastPrior, job, FullName(job, "a")}
MergePrevious == {"", FullName(job, "a")}
ChainLengths == {-1, 1, 2}
ChainStops == {"", "nosuch", job, DsId, PriorId(PriorChain - 1)}
ChainStarts == {FullName(job, "merged"), FullName(job, "a"), job}

NextChain ==
    \/ \E sliceno \in SliceNos, count \in LineCounts :
          called = NoCall /\ set_lines(sliceno, count)
    \/ called = NoCall /\ finish
    \/ \E name \in ChainNames,
          override_previous \in ChainPrevious \cup {_no_override} :
          /\ called = NoCall /\ ~Usable
          /\ Len(datasets_written) < MaxDatasets
          /\ link_to_here(DsId, name, {}, override_previous)
    \/ \E self \in {ParentId, DsId}, other \in {ParentId, DsId},
          previous \in MergePrevious, allow_unrelated \in BOOLEAN :
          /\ called = NoCall /\ ~Usable
          /\ merge(self, other, "merged", previous, allow_unrelated)
    \/ \E self \in ChainStarts, length \in ChainLengths, reverse \in BOOLEAN,
          stop_ds \in ChainStops :
          called = NoCall /\ chain_call(self, length, reverse, stop_ds)

SpecChain == InitChain /\ [][NextChain]_vars


-----------------------------------------------------------------------------
(* Properties of chains.                                                   *)

\* the record of id counts right from the record before it in its chain:
\* one more than that one (which counts as 1 when it starts the chain),
\* 0 instead of CacheStride; it has a cache exactly when it counts 0, and
\* then the chain down from it is a multiple of CacheStride long
CountsFromPrevious(id) ==
    LET d == datasets[id]
        p == datasets[Pickle(d.previous)]
        before == IF p.cache_distance = None THEN 1 ELSE p.cache_distance[1]
        all == chain(datasets, Dataset(datasets, id), -1, FALSE, "")
    IN IF d.previous = ""
       THEN d.cache_distance = None /\ d.cache = None
       ELSE /\ d.cache_distance # None
            /\ d.cache_distance[1] \in 0 .. (CacheStride - 1)
            /\ d.cache_distance[1] = (before + 1) % CacheStride
            /\ (d.cache # None) <=> (d.cache_distance[1] = 0)
            /\ d.cache # None =>
                  all.res = "ok" /\ Len(all.chain) % CacheStride = 0

\* C12: every dataset with a previous has cache_distance one more than its
\* predecessor's, 0 when that reaches 64, so within 0..63; and it carries
\* a cache exactly when its cache_distance is 0, at every 64th dataset of
\* the chain.
C12_CacheDistance ==
    \A id \in DOMAIN datasets : CountsFromPrevious(id)

\* C12, as long as no record was saved over
C12_CacheDistanceUnchanged ==
    rewritten = {} => \A id \in DOMAIN datasets : CountsFromPrevious(id)

\* a dataset that counts 0 and has a cache, and the one after it counts 1
C12_Witness ==
    /\ rewritten = {}
    /\ \E id \in DOMAIN datasets, next \in DOMAIN datasets :
          /\ datasets[id].cache_distance = Some(0)
          /\ datasets[id].cache # None
          /\ datasets[next].previous # ""
          /\ Pickle(datasets[next].previous) = id
          /\ datasets[next].cache_distance = Some(1)


\* the cache of the record id holds the CacheStride - 1 datasets before it
\* in its chain, oldest first, each as its unicode value and its record as
\* it is persisted, none of them with a cache, and not the dataset itself
CacheHoldsPredecessors(id) ==
    LET d == datasets[id]
        c == d.cache[1]
        walk == chain(datasets, Dataset(datasets, id), CacheStride, FALSE, "")
    IN /\ Len(c) = CacheStride - 1
       /\ walk.res = "ok"
       /\ Len(walk.chain) = CacheStride
       /\ c = SubSeq(walk.chain, 1, CacheStride - 1)
       /\ \A i \in DOMAIN c :
             /\ c[i].id # Dataset_unicode(id)
             /\ c[i].data.cache = None

\* C13: a cache tuple has exactly 63 entries, the identities and records
\* of the 63 predecessors along previous, in chain order; the dataset
\* itself is not among them and no embedded record has a cache.
C13_CacheContents ==
    \A id \in DOMAIN datasets :
        datasets[id].cache # None => CacheHoldsPredecessors(id)

\* C13, as long as no record was saved over
C13_CacheContentsUnchanged ==
    rewritten = {} =>
        \A id \in DOMAIN datasets :
            datasets[id].cache # None => CacheHoldsPredecessors(id)

\* a dataset of this job with a cache that reaches back to the first of
\* the earlier jobs
C13_Witness ==
    /\ rewritten = {}
    /\ \E id \in DOMAIN datasets :
          /\ datasets[id].cache # None
          /\ datasets[id].cache[1][1].id = PriorJob(1)


\* the datasets a chain call returned, newest first, by their records'
\* places
ChainNewestFirst ==
    LET c == called.out.chain
        r == IF called.reverse THEN c ELSE Reversed(c)
    IN [i \in DOMAIN r |-> r[i]]

C15_Immutable ==
    [][\A id \in DOMAIN datasets :
          id \in DOMAIN datasets' /\ datasets'[id] = datasets[id]]_vars

\* what does hold: only records of the job that runs are saved, so those
\* of other jobs stay as they are
C15_OtherJobsKept ==
    [][\A id \in DOMAIN datasets :
          Spelled[id][1] # job =>
              id \in DOMAIN datasets' /\ datasets'[id] = datasets[id]]_vars

-----------------------------------------------------------------------------
(* Dataset.iterate_list and Dataset._iterate_datasets: the plan over a     *)
(* list of datasets, and the rows the plan yields.  A call is the record   *)
(* of its arguments: sliceno (None or a slice), columns (the names, in     *)
(* the order asked for) with want_tuple (FALSE when one name was given as  *)
(* a string), datasets (the list), range (None or <<column, bottom, top>>  *)
(* with optional bounds), sloppy_range, hashlabel ("" for None), rehash.   *)
(* No callbacks that skip, no filters and no translators are passed.       *)

\* the interpreter compares the extremes of a column with the bounds of a
\* range; an extreme that was never tracked is None, which Python 2
\* orders below every number and Python 3 refuses to order
Py_ge(a, b, py3) ==
    IF a = None THEN (IF py3 THEN "TypeError" ELSE "False")
    ELSE IF a[1] >= b THEN "True" ELSE "False"
Py_lt(a, b, py3) ==
    IF a = None THEN (IF py3 THEN "TypeError" ELSE "True")
    ELSE IF a[1] < b THEN "True" ELSE "False"

\* range_check_function(bottom, top)(v)
range_check_function(bottom, top, v) ==
    IF top = None
    THEN (IF bottom = None THEN TRUE ELSE bottom[1] <= v)
    ELSE IF bottom = None THEN top[1] > v
    ELSE v >= bottom[1] /\ v < top[1]

\* the range iterate_list goes on with: none when both bounds are None
range_given(range) ==
    IF range # None /\ range[1][2] = None /\ range[1][3] = None THEN None
    ELSE range

\* one round of the loop of iterate_list over the datasets: what becomes
\* of the dataset t with the record d
plan_one(d, t, a, py3) ==
    LET range == range_given(a.range)
        range_k == range[1][1]
        range_bottom == range[1][2]
        range_top == range[1][3]
        c == d.columns[range_k]
        above == Py_ge(c.min, range_top[1], py3)
        below == Py_lt(c.max, range_bottom[1], py3)
        entries(rehash_on) ==
            IF a.sliceno = None
            THEN [ix \in 1 .. Slices |->
                     [d |-> t, sliceno |-> ix - 1, rehash |-> ""]]
            ELSE <<[d |-> t, sliceno |-> a.sliceno[1], rehash |-> rehash_on]>>
        hashed ==
            IF a.hashlabel # "" /\ d.hashlabel # a.hashlabel
            THEN IF ~a.rehash THEN [res |-> "AssertionError", add |-> <<>>]
                 ELSE IF a.hashlabel \notin DOMAIN d.columns
                 THEN [res |-> "AssertionError", add |-> <<>>]
                 ELSE [res |-> "ok", add |-> entries(a.hashlabel)]
            ELSE [res |-> "ok", add |-> entries("")]
        skip == [res |-> "ok", add |-> <<>>]
    IN IF SumSeq(d.lines) = 0 THEN skip
       ELSE IF range = None THEN hashed
       ELSE IF range_k \notin DOMAIN d.columns
       THEN [res |-> "KeyError", add |-> <<>>]
       ELSE IF range_top # None /\ above = "TypeError"
       THEN [res |-> "TypeError", add |-> <<>>]
       ELSE IF range_top # None /\ above = "True" THEN skip
       ELSE IF range_bottom # None /\ below = "TypeError"
       THEN [res |-> "TypeError", add |-> <<>>]
       ELSE IF range_bottom # None /\ below = "True" THEN skip
       ELSE hashed

\* the loop of iterate_list over the datasets todo: to_iter, or the
\* exception that ended the call
RECURSIVE plan_loop(_, _, _, _)
plan_loop(ds, todo, a, py3) ==
    IF todo = <<>> THEN [res |-> "ok", to_iter |-> <<>>]
    ELSE LET one == plan_one(ds[Pickle(Head(todo))], Head(todo), a, py3)
             rest == plan_loop(ds, Tail(todo), a, py3)
         IN IF one.res # "ok" THEN [res |-> one.res, to_iter |-> <<>>]
            ELSE IF rest.res # "ok" THEN rest
            ELSE [res |-> "ok", to_iter |-> one.add \o rest.to_iter]

\* itertools.compress(it, selectors)
RECURSIVE compress(_, _)
compress(it, selectors) ==
    IF it = <<>> \/ selectors = <<>> THEN <<>>
    ELSE (IF Head(selectors) THEN <<Head(it)>> ELSE <<>>)
         \o compress(Tail(it), Tail(selectors))

\* ifilter(f, it) for the range check on position range_i of a row, or on
\* the value itself when rows are single values (range_i = 0)
RECURSIVE ifilter_range(_, _, _, _)
ifilter_range(it, range_i, bottom, top) ==
    IF it = <<>> THEN <<>>
    ELSE LET v == IF range_i = 0 THEN Head(it) ELSE Head(it)[range_i]
         IN (IF range_check_function(bottom, top, v) THEN <<Head(it)>>
             ELSE <<>>)
            \o ifilter_range(Tail(it), range_i, bottom, top)

\* _column_iterator(None, col, hashfilter=(sliceno, slices)): the reader
\* of a column says of each value whether it hashes to the slice
hashfilter_iterator(d, fs, col, hashfilter) ==
    LET vals == _column_iterator(d, fs, None, col)
    IN [i \in 1 .. Len(vals) |-> hashcheck(hashfilter, vals[i])]

\* d._hashfilter(sliceno, hashlabel, it)
_hashfilter(d, fs, sliceno, hashlabel, it) ==
    compress(it, hashfilter_iterator(d, fs, hashlabel, <<sliceno, Slices>>))

\* one round of the loop of _iterate_datasets: the rows the plan entry e
\* yields, with the range the driver was given (None when sloppy)
iterate_one(d, fs, e, a, range) ==
    LET sliceno == IF e.rehash # "" THEN None ELSE Some(e.sliceno)
        not_found == {a.columns[i] : i \in DOMAIN a.columns} \ DOMAIN d.columns
        cols == [i \in DOMAIN a.columns |->
                    _column_iterator(d, fs, sliceno, a.columns[i])]
        it0 == IF a.want_tuple THEN izip(cols) ELSE cols[1]
        it1 == IF e.rehash # "" THEN _hashfilter(d, fs, e.sliceno, e.rehash, it0)
               ELSE it0
        range_k == range[1][1]
        range_bottom == range[1][2]
        range_top == range[1][3]
        c == d.columns[range_k]
        has_range_column == \E i \in DOMAIN a.columns : a.columns[i] = range_k
        filter_it ==
            IF e.rehash # ""
            THEN _hashfilter(d, fs, e.sliceno, e.rehash,
                             _column_iterator(d, fs, None, range_k))
            ELSE _column_iterator(d, fs, Some(e.sliceno), range_k)
        it2 == IF range = None THEN it1
               ELSE IF c.min # None
                       /\ (~range_check_function(range_bottom, range_top,
                                                 c.min[1])
                           \/ ~range_check_function(range_bottom, range_top,
                                                    c.max[1]))
               THEN IF has_range_column
                    THEN ifilter_range(it1,
                                       IF a.want_tuple
                                       THEN index(a.columns, range_k) ELSE 0,
                                       range_bottom, range_top)
                    ELSE compress(it1,
                                  [i \in DOMAIN filter_it |->
                                      range_check_function(range_bottom,
                                                           range_top,
                                                           filter_it[i])])
               ELSE it1
    IN IF not_found # {} THEN [res |-> "AssertionError", rows |-> <<>>]
       ELSE [res |-> "ok", rows |-> it2]

\* the loop of _iterate_datasets over to_iter: the rows in the order they
\* are yielded, the plan entries whose pre_callback was called, and how
\* the iteration ended
RECURSIVE _iterate_datasets(_, _, _, _, _)
_iterate_datasets(ds, fs, to_iter, a, range) ==
    IF to_iter = <<>> THEN [res |-> "ok", rows |-> <<>>, visited |-> <<>>]
    ELSE LET e == Head(to_iter)
             one == iterate_one(ds[Pickle(e.d)], fs, e, a, range)
             rest == _iterate_datasets(ds, fs, Tail(to_iter), a, range)
         IN IF one.res # "ok"
            THEN [res |-> one.res, rows |-> <<>>, visited |-> <<e>>]
            ELSE [res |-> rest.res, rows |-> one.rows \o rest.rows,
                  visited |-> <<e>> \o rest.visited]

\* iterate_list(sliceno, columns, datasets, range, sloppy_range, hashlabel,
\* rehash) consumed to its end: the exception of the call itself leaves
\* nothing read; otherwise the plan is driven
iterate_list(ds, fs, a, py3) ==
    LET plan == plan_loop(ds, a.datasets, a, py3)
        range == IF a.sloppy_range THEN None ELSE range_given(a.range)
        out == _iterate_datasets(ds, fs, plan.to_iter, a, range)
    IN IF plan.res # "ok"
       THEN [res |-> plan.res, raised |-> "call", to_iter |-> <<>>,
             rows |-> <<>>, visited |-> <<>>]
       ELSE [res |-> out.res,
             raised |-> IF out.res = "ok" THEN "" ELSE "iteration",
             to_iter |-> plan.to_iter, rows |-> out.rows,
             visited |-> out.visited]

-----------------------------------------------------------------------------
(* Reading a chain.  The dataset R/default exists before the job starts:   *)
(* another job wrote the rows RRows through a split writer with hashlabel  *)
(* v and finished it.  The writer of this job has previous = R; the job    *)
(* fills and finishes it, may merge its dataset into R's, and then         *)
(* iterates over a chain.                                                  *)

RRows == <<[k |-> 0, v |-> MaxVal], [k |-> MaxVal, v |-> 0]>>
RId == "R/default"

\* the rows the split function of R's writer handed to slice s
RSliceRows(s) == SelectSeq(RRows, LAMBDA r : split_hash_slice(r.v) = s)

\* the extremes R's writers tracked for column c
RMin(c) == CHOOSE x \in {RRows[i][c] : i \in DOMAIN RRows} :
              \A i \in DOMAIN RRows : x <= RRows[i][c]
RMax(c) == CHOOSE x \in {RRows[i][c] : i \in DOMAIN RRows} :
              \A i \in DOMAIN RRows : x >= RRows[i][c]

\* what _append made of R: a descriptor for each column, k first, and
\* _maybe_merge on the slice files the writers left
RWritten ==
    LET fs0 == [fn \in {<<"R", "default", SliceStr(s), c>> :
                           s \in SliceNos, c \in {"k", "v"}} |->
                   LET rows == RSliceRows(CHOOSE s \in SliceNos :
                                             SliceStr(s) = fn[3])
                   IN [i \in DOMAIN rows |-> rows[i][fn[4]]]]
        cols0 == [c \in {"k", "v"} |->
                     DatasetColumn(TypeOf(c), c, <<"R", "default", "%s", c>>,
                                   Some(RMin(c)), Some(RMax(c)), None)]
        m1 == _maybe_merge(cols0, fs0, "k")
    IN _maybe_merge(m1.cols, m1.fs, "v")

RDataset ==
    [hashlabel |-> "v", columns |-> RWritten.cols, previous |-> "",
     parent |-> None,
     lines |-> [s \in 1 .. Slices |-> Len(RSliceRows(s - 1))],
     cache |-> None, cache_distance |-> None]

\* the writers whose datasets are read: without a parent
ReadConfigs == {c \in Configs : c.parent = ""}

InitRead ==
    /\ running = "prepare"
    /\ g_sliceno = None
    /\ datasets = (RId :> RDataset)
    /\ saved_by = (RId :> "finish")
    /\ files = RWritten.fs
    /\ \E c \in ReadConfigs :
          dw = [NewWriter(running, c.hashlabel, c.parent, c.meta_only,
                          Some(0), <<>>)
                EXCEPT !.previous = _dsid("R")]
    /\ writers = <<>>
    /\ allwriters = <<>>
    /\ datasets_written = <<>>
    /\ registry = {dsname}
    /\ written = <<>>
    /\ rewritten = {}
    /\ called = NoCall
    /\ NoDaemon

\* self.iterate_chain(sliceno, columns, length, range, sloppy_range,
\* reverse, hashlabel, rehash=rehash) consumed to its end, under Python 3
\* or Python 2: chain, then iterate_list over it
iterate_chain(self, a, length, reverse, py3) ==
    LET c == chain(datasets, Dataset(datasets, self), length, reverse, "")
        args == [a EXCEPT !.datasets = [i \in DOMAIN c.chain |-> c.chain[i].id]]
    IN
    /\ c.res = "ok"
    /\ called' = [op |-> "iterate_list", reverse |-> reverse, a |-> args,
                  out |-> iterate_list(datasets, files, args, py3)]
    /\ UNCHANGED <<running, g_sliceno, dw, writers, allwriters, files,
                   datasets, saved_by, datasets_written, registry, written,
                   rewritten, daemon>>

\* the arguments of the calls
ReadSlices == {None} \cup {Some(s) : s \in SliceNos}
ReadColumns == {[columns |-> <<"k">>, want_tuple |-> FALSE],
                [columns |-> <<"v">>, want_tuple |-> TRUE],
                [columns |-> <<"v", "k">>, want_tuple |-> TRUE]}
ReadBounds == {<<None, Some(1)>>, <<Some(1), None>>, <<Some(1), Some(2)>>,
               <<None, None>>}
ReadRanges == {None} \cup {Some(<<"k", b[1], b[2]>>) : b \in ReadBounds}
ReadHashlabels == {"", "k", "v"}
ReadArgs ==
    {a \in [sliceno : ReadSlices, columns : {c.columns : c \in ReadColumns},
            want_tuple : BOOLEAN, datasets : {<<>>}, range : ReadRanges,
            sloppy_range : BOOLEAN, hashlabel : ReadHashlabels,
            rehash : BOOLEAN] :
        /\ [columns |-> a.columns, want_tuple |-> a.want_tuple] \in ReadColumns
        /\ range_given(a.range) = None => ~a.sloppy_range
        /\ a.range # None => a.hashlabel # "v"
        /\ a.hashlabel = "" => ~a.rehash}
ReadChains == {<<-1, FALSE>>, <<-1, TRUE>>}

\* the files a caller places hold the values it counts with set_lines and
\* whose extremes it may pass to set_minmax
ReadCounts == 0 .. 1
ReadMinmax == {[c \in {"k"} |-> <<Some(ParentVal), Some(ParentVal)>>]}

\* the dataset the job merges
MergedId == FullName(job, "merged")

\* the caller of the reader hands it datasets whose files hold the lines
\* of the record
Consistent == \A id \in DOMAIN datasets : ColumnsHoldLines(id)

NextRead ==
    \/ \E colname \in ColNames :
          /\ colname = "v" => "k" \in DOMAIN dw.columns
          /\ add(colname, TypeOf(colname))
    \/ get_split("get_split_write_dict")
    \/ \E values \in Rows :
          /\ Len(written) < ReadWrites
          /\ split_call("split_dict", values)
    \/ \E sliceno \in SliceNos, count \in ReadCounts :
          set_lines(sliceno, count)
    \/ \E sliceno \in SliceNos, minmax \in ReadMinmax :
          /\ DOMAIN minmax \subseteq DOMAIN dw.columns
          /\ set_minmax(sliceno, minmax)
    \/ \E colname \in DOMAIN dw.columns, sliceno \in SliceNos,
          vals \in PlacedContents : place_file(colname, sliceno, vals)
    \/ called = NoCall /\ finish
    \/ /\ called = NoCall
       /\ ~Usable
       /\ DsId \in DOMAIN datasets
       /\ MergedId \notin DOMAIN datasets
       /\ merge(RId, DsId, "merged", "", TRUE)
    \/ /\ called = NoCall
       /\ Consistent
       /\ \E self \in {DsId, MergedId} \cap DOMAIN datasets, a \in ReadArgs,
             c \in ReadChains, py3 \in BOOLEAN :
             iterate_chain(self, a, c[1], c[2], py3)

SpecRead == InitRead /\ [][NextRead]_vars

-----------------------------------------------------------------------------
(* The properties of reading.                                              *)

\* the rows the files of the record d hold for slice s, each a mapping
\* from every column to its stored value
StoredRows(d, s) ==
    [i \in 1 .. d.lines[s + 1] |->
        [c \in DOMAIN d.columns |-> one_slice(d, files, c, s).vals[i]]]

\* the stored rows a plan entry stands for: those of its slice, or with
\* rehash those of all slices that hash to its slice
EntryRows(e) ==
    LET d == datasets[Pickle(e.d)]
    IN IF e.rehash = "" THEN StoredRows(d, e.sliceno)
       ELSE SelectSeq(Concat([i \in 1 .. Slices |-> StoredRows(d, i - 1)]),
                      LAMBDA r : Hash(r[e.rehash]) % Slices = e.sliceno)

\* a stored row as the call a yields it
Emitted(a, r) ==
    IF a.want_tuple THEN [i \in DOMAIN a.columns |-> r[a.columns[i]]]
    ELSE r[a.columns[1]]

\* lo <= v < hi for the bounds of range that are set
InRange(range, v) ==
    /\ range[1][2] # None => range[1][2][1] <= v
    /\ range[1][3] # None => v < range[1][3][1]

\* the in-range stored rows of the plan entries, as the call yields them
PreciseRows(a, to_iter) ==
    Concat([n \in DOMAIN to_iter |->
               LET rows == SelectSeq(EntryRows(to_iter[n]),
                                     LAMBDA r : InRange(a.range, r[a.range[1][1]]))
               IN [i \in DOMAIN rows |-> Emitted(a, rows[i])]])

\* is p what is left of r when some elements are taken out?
RECURSIVE IsSubSeq(_, _)
IsSubSeq(p, r) ==
    IF p = <<>> THEN TRUE
    ELSE IF r = <<>> THEN FALSE
    ELSE IF Head(p) = Head(r) THEN IsSubSeq(Tail(p), Tail(r))
    ELSE IsSubSeq(p, Tail(r))

\* no dataset of the plan has min or max outside the range
NoneCrosses(a, to_iter) ==
    \A n \in DOMAIN to_iter :
        LET c == datasets[Pickle(to_iter[n].d)].columns[a.range[1][1]]
        IN /\ c.min # None => InRange(a.range, c.min[1])
           /\ c.max # None => InRange(a.range, c.max[1])

\* the extremes of the range column are tracked in every dataset of the plan
ExtremesTracked(a, to_iter) ==
    \A n \in DOMAIN to_iter :
        datasets[Pickle(to_iter[n].d)].columns[a.range[1][1]].min # None

\* a call of iterate_list with a range that has a bound, consumed to its end
RangeCall ==
    /\ called.op = "iterate_list"
    /\ called.out.res = "ok"
    /\ range_given(called.a.range) # None

RangeRowsAsSpecified ==
    IF called.a.sloppy_range
    THEN /\ IsSubSeq(PreciseRows(called.a, called.out.to_iter),
                     called.out.rows)
         /\ NoneCrosses(called.a, called.out.to_iter)
               => called.out.rows = PreciseRows(called.a, called.out.to_iter)
    ELSE called.out.rows = PreciseRows(called.a, called.out.to_iter)

\* C16: with range={c:(lo,hi)} and sloppy_range=False the rows yielded are
\* exactly the stored rows of the visited datasets with lo <= c < hi,
\* whether or not c is among the columns and whether or not a dataset is
\* rehashed; with sloppy_range=True the in-range rows are among the rows
\* yielded, and they are all of them when no visited dataset has min or
\* max outside the range.
C16_RangeRows == RangeCall => RangeRowsAsSpecified

\* the same for the calls whose visited datasets all have the extremes of
\* the range column on record
C16_RangeRowsTracked ==
    (RangeCall /\ ExtremesTracked(called.a, called.out.to_iter))
        => RangeRowsAsSpecified

\* the datasets of a sequence of plan entries, each once, in order
RECURSIVE DatasetsOf(_)
DatasetsOf(entries) ==
    IF entries = <<>> THEN <<>>
    ELSE LET rest == DatasetsOf(Tail(entries))
         IN IF rest # <<>> /\ Head(rest) = Head(entries).d THEN rest
            ELSE <<Head(entries).d>> \o rest

\* is the dataset t pruned by min >= hi or max < lo of the range column?
PrunedByRange(t, range) ==
    LET c == datasets[Pickle(t)].columns[range[1][1]]
    IN /\ range[1][1] \in DOMAIN datasets[Pickle(t)].columns
       /\ \/ range[1][3] # None /\ c.min # None /\ c.min[1] >= range[1][3][1]
          \/ range[1][2] # None /\ c.max # None /\ c.max[1] < range[1][2][1]

\* does the dataset t hold a row whose range column is within the range?
HoldsInRange(t, range) ==
    \E s \in SliceNos :
        LET rows == StoredRows(datasets[Pickle(t)], s)
        IN \E i \in DOMAIN rows : InRange(range, rows[i][range[1][1]])

\* the datasets with lines that a call is to visit
ToVisit(a) ==
    SelectSeq(a.datasets,
              LAMBDA t : /\ SumSeq(datasets[Pickle(t)].lines) > 0
                         /\ range_given(a.range) # None
                               => ~PrunedByRange(t, a.range))

\* with a range, the datasets with lines of the list all have the range
\* column, with its extremes on record
ListTracked(a) ==
    range_given(a.range) # None =>
        \A n \in DOMAIN a.datasets :
            LET d == datasets[Pickle(a.datasets[n])]
            IN SumSeq(d.lines) > 0
                  => /\ a.range[1][1] \in DOMAIN d.columns
                     /\ d.columns[a.range[1][1]].min # None

VisitsAsSpecified ==
    /\ DatasetsOf(called.out.visited) = ToVisit(called.a)
    /\ range_given(called.a.range) # None =>
          \A n \in DOMAIN called.a.datasets :
              LET t == called.a.datasets[n]
              IN (\A m \in DOMAIN called.out.visited :
                     called.out.visited[m].d # t)
                    => ~HoldsInRange(t, called.a.range)

\* C17: a call of iterate_list that is consumed to its end visits exactly
\* the datasets of its list that have lines and, with a range, are not
\* pruned by min >= hi or max < lo, in the order of the list, with
\* sloppy_range or without; and no dataset that is left out holds a row
\* within the range.
C17_Visits ==
    (called.op = "iterate_list" /\ called.out.res = "ok")
        => VisitsAsSpecified

\* the same for the calls on datasets that all have the extremes of the
\* range column on record
C17_VisitsTracked ==
    (/\ called.op = "iterate_list"
     /\ called.out.res = "ok"
     /\ ListTracked(called.a))
        => VisitsAsSpecified

\* a call with a hashlabel on a list in which a dataset that is to be
\* visited has another hashlabel, and rehash is not asked for or the
\* column is not there
HashlabelMisuse ==
    /\ called.op = "iterate_list"
    /\ called.a.hashlabel # ""
    /\ \E n \in DOMAIN ToVisit(called.a) :
          LET d == datasets[Pickle(ToVisit(called.a)[n])]
          IN /\ d.hashlabel # called.a.hashlabel
             /\ ~(called.a.rehash /\ called.a.hashlabel \in DOMAIN d.columns)

\* the call itself raised exc: no callback was called and nothing was read
FailedInCall(exc) ==
    /\ called.out.res = exc
    /\ called.out.raised = "call"
    /\ called.out.visited = <<>>
    /\ called.out.rows = <<>>

\* C18: a call of iterate_list with a hashlabel, on a list in which a
\* dataset with lines that is not pruned has another hashlabel, fails with
\* DatasetUsageError unless rehash is true and the dataset has the column;
\* it fails while the plan is built, before any callback is called or any
\* row is read.
C18_MisuseUsageError == HashlabelMisuse => FailedInCall("DatasetUsageError")

\* such a call fails in the call itself, with an AssertionError, when the
\* extremes of the range column are on record
C18_MisuseAsserted ==
    (HashlabelMisuse /\ ListTracked(called.a))
        => FailedInCall("AssertionError")

\* and in any case it fails in the call itself
C18_MisuseFailsInCall ==
    (HashlabelMisuse /\ called.out.res # "ok") => called.out.raised = "call"

\* all stored rows of the dataset t, slice by slice
AllStoredRows(t) ==
    Concat([i \in 1 .. Slices |-> StoredRows(datasets[Pickle(t)], i - 1)])

\* a call with hashlabel, rehash and a slice, without a range, consumed to
\* its end
RehashCall ==
    /\ called.op = "iterate_list"
    /\ called.a.hashlabel # ""
    /\ called.a.rehash
    /\ called.a.sliceno # None
    /\ range_given(called.a.range) = None
    /\ called.out.res = "ok"

\* the rows the same call yields for slice s
RowsForSlice(s) ==
    iterate_list(datasets, files, [called.a EXCEPT !.sliceno = Some(s)],
                 TRUE).rows

\* the plan and the rows of a rehashing call for its slice, and the rows
\* of the same call for all slices
RehashedAsSpecified ==
    LET a == called.a
        s == a.sliceno[1]
        plan == called.out.to_iter
    IN /\ DatasetsOf(plan) = ToVisit(a)
       /\ \A n \in DOMAIN plan :
             /\ plan[n].sliceno = s
             /\ plan[n].rehash =
                   IF datasets[Pickle(plan[n].d)].hashlabel = a.hashlabel
                   THEN "" ELSE a.hashlabel
             /\ \A i \in DOMAIN EntryRows(plan[n]) :
                   Hash(EntryRows(plan[n])[i][a.hashlabel]) % Slices = s
       /\ called.out.rows =
             Concat([n \in DOMAIN plan |->
                        [i \in DOMAIN EntryRows(plan[n]) |->
                            Emitted(a, EntryRows(plan[n])[i])]])
       /\ \A n \in DOMAIN plan :
             \A r \in Range(AllStoredRows(plan[n].d)) :
                 Hash(r[a.hashlabel]) % Slices = s
                    => Count(EntryRows(plan[n]), r)
                          = Count(AllStoredRows(plan[n].d), r)
       /\ SameMultiset(
             Concat([i \in 1 .. Slices |-> RowsForSlice(i - 1)]),
             Concat([n \in DOMAIN ToVisit(a) |->
                        [i \in DOMAIN AllStoredRows(ToVisit(a)[n]) |->
                            Emitted(a, AllStoredRows(ToVisit(a)[n])[i])]]))

\* C19: with hashlabel=h, rehash=True and a slice s the rows yielded are,
\* dataset by dataset, the stored rows with hash(row[h]) mod slices = s:
\* those of slice s of a dataset hashed on h, which all hash to s, and
\* those of all slices that hash to s of a dataset hashed otherwise; the
\* rows yielded for the slices 0 .. slices-1 together are the stored rows
\* of the visited datasets, each once.
C19_Rehash == RehashCall => RehashedAsSpecified

\* the same for the calls on datasets that writers finished
C19_RehashWritten ==
    (RehashCall /\ \A n \in DOMAIN called.a.datasets :
                      saved_by[Pickle(called.a.datasets[n])] = "finish")
        => RehashedAsSpecified

\* a rehashing call on a dataset hashed on h and one hashed otherwise,
\* both of which yield rows, and the other one not all of its rows
C19_Witness ==
    /\ RehashCall
    /\ \E n, m \in DOMAIN called.out.to_iter :
          LET direct == called.out.to_iter[n]
              other == called.out.to_iter[m]
          IN /\ direct.rehash = "" /\ EntryRows(direct) # <<>>
             /\ other.rehash # "" /\ EntryRows(other) # <<>>
             /\ Len(EntryRows(other)) < Len(AllStoredRows(other.d))

\* a call with sliceno None and without a range, consumed to its end
UnslicedCall ==
    /\ called.op = "iterate_list"
    /\ called.a.sliceno = None
    /\ range_given(called.a.range) = None
    /\ called.out.res = "ok"

\* is the list oldest first: does every dataset but the first name the
\* one before it as its previous?
OldestFirst(list) ==
    \A n \in 2 .. Len(list) :
        datasets[Pickle(list[n])].previous = _dsid(list[n - 1])

\* C20: with sliceno None the rows come dataset by dataset in the order of
\* the chain, oldest first unless reverse is asked for, within a dataset
\* slice by slice from slice 0 on, within a slice as the files hold them;
\* the plan has an entry for every slice of every visited dataset and none
\* carries rehash, so every stored row of every visited dataset is yielded
\* once, whatever hashlabel and rehash are passed.
C20_Unsliced ==
    UnslicedCall =>
        LET a == called.a
            plan == called.out.to_iter
        IN /\ IF called.reverse THEN OldestFirst(Reversed(a.datasets))
              ELSE OldestFirst(a.datasets)
           /\ plan = Concat([n \in DOMAIN ToVisit(a) |->
                               [i \in 1 .. Slices |->
                                   [d |-> ToVisit(a)[n], sliceno |-> i - 1,
                                    rehash |-> ""]]])
           /\ called.out.visited = plan
           /\ called.out.rows =
                 Concat([n \in DOMAIN ToVisit(a) |->
                            [i \in DOMAIN AllStoredRows(ToVisit(a)[n]) |->
                                Emitted(a, AllStoredRows(ToVisit(a)[n])[i])]])

\* an unsliced call with hashlabel and rehash over two datasets with rows
\* in more than one slice, one of them hashed otherwise
C20_Witness ==
    /\ UnslicedCall
    /\ called.a.hashlabel # ""
    /\ called.a.rehash
    /\ Len(ToVisit(called.a)) = 2
    /\ \A n \in DOMAIN ToVisit(called.a) :
          Cardinality({s \in SliceNos :
                          StoredRows(datasets[Pickle(ToVisit(called.a)[n])], s)
                             # <<>>}) > 1
    /\ \E n \in DOMAIN ToVisit(called.a) :
          datasets[Pickle(ToVisit(called.a)[n])].hashlabel # called.a.hashlabel

-----------------------------------------------------------------------------
(* Dataset.iterate_list in full: callbacks, filters, translators and       *)
(* sliceno="roundrobin".  A call is the record of its arguments as above,  *)
(* with pre_callback and post_callback (None or a callback), filters and   *)
(* translators (None, a callable or a dict of them by column).  What the   *)
(* consumer of the returned iterator and the callbacks observe is a        *)
(* sequence of events: a call of pre_callback or post_callback with what   *)
(* it raised, or a row handed to the consumer.                             *)

\* sliceno="roundrobin": a sliceno that is no slice
roundrobin == Some(-1)

\* a callback of the caller: a function of nargs arguments (one: the
\* dataset, two: the dataset and the slice) that raises an exception when
\* it is called for the dataset d (and, with two arguments, the slice
\* sliceno) and returns otherwise
Callback(nargs, raises, d, sliceno) ==
    [nargs |-> nargs, raises |-> raises, d |-> d, sliceno |-> sliceno]

\* func(d) or func(d, sliceno): what the call raises ("" when it returns)
call(func, d, sliceno) ==
    IF func.d = d /\ (func.nargs = 1 \/ func.sliceno = sliceno)
    THEN func.raises ELSE ""

\* the events
CallEvent(ev, func, d, sliceno) ==
    [ev |-> ev, d |-> d,
     sliceno |-> IF func.nargs = 1 THEN None ELSE Some(sliceno),
     row |-> None, raised |-> call(func, d, sliceno)]
RowEvent(e, row) ==
    [ev |-> "row", d |-> e.d, sliceno |-> Some(e.sliceno), row |-> Some(row),
     raised |-> ""]

\* wrapper(d, sliceno) of argfixup(func, is_post) for a func of one
\* argument, with seen_ds[0] = seen and the skip_ds of the driver ("" is
\* None): the call it makes, seen_ds[0] afterwards and what it raised
wrapper(func, is_post, seen, skip_ds, d) ==
    LET quiet == [calls |-> <<>>, seen |-> d, raised |-> ""]
        does(t) == [calls |-> <<CallEvent(IF is_post THEN "post" ELSE "pre",
                                          func, t, 0)>>,
                    seen |-> IF call(func, t, 0) = "" THEN d ELSE seen,
                    raised |-> call(func, t, 0)]
    IN IF d = seen THEN [quiet EXCEPT !.seen = seen]
       ELSE IF is_post
       THEN (IF seen # "" /\ seen # skip_ds THEN does(seen) ELSE quiet)
       ELSE does(d)

\* the named functions a caller passes as translators and filters: flip
\* and shift translate a value; a filter is None ("": the value itself
\* decides), or is_max
CallTranslator(f, v) ==
    IF f = "flip" THEN MaxVal - v ELSE v + MaxVal + 1
CallFilter(f, v) ==
    IF f = "" THEN v # 0 ELSE v = MaxVal

\* a callable passed as translators gets the row (the value when one
\* column was named as a string) and translates each value; a callable
\* passed as filters judges the first value
CallRowTranslator(f, row, want_tuple) ==
    IF want_tuple THEN [i \in DOMAIN row |-> CallTranslator(f, row[i])]
    ELSE CallTranslator(f, row)
CallRowFilter(f, row, want_tuple) ==
    IF want_tuple THEN CallFilter(f, row[1]) ELSE CallFilter(f, row)

\* filters and translators as passed: None, Some(a callable) or Some(a
\* dict from column names to functions)
Callable(f) == Some([callable |-> TRUE, f |-> f, dict |-> <<>>])
ByColumn(dict) == Some([callable |-> FALSE, f |-> "", dict |-> dict])

\* columns.index(name) for each name of a dict: the positions, or the
\* ValueError of a name that is not among the columns
positions(columns, dict) ==
    IF \A n \in DOMAIN dict : \E i \in DOMAIN columns : columns[i] = n
    THEN [res |-> "ok",
          at |-> [i \in {index(columns, n) : n \in DOMAIN dict} |->
                     dict[columns[i]]]]
    ELSE [res |-> "ValueError", at |-> <<>>]

\* _resolve_translators(columns, translators): translation_func ("" for
\* None) and the translators by position
_resolve_translators(columns, translators) ==
    IF translators = None \/ (~translators[1].callable
                              /\ DOMAIN translators[1].dict = {})
    THEN [res |-> "ok", translation_func |-> "", translators |-> <<>>]
    ELSE IF translators[1].callable
    THEN [res |-> "ok", translation_func |-> translators[1].f,
          translators |-> <<>>]
    ELSE LET p == positions(columns, translators[1].dict)
         IN [res |-> p.res, translation_func |-> "", translators |-> p.at]

\* _resolve_filters(columns, filters, want_tuple): filter_func, as the
\* verdict on a row; for a dict, "f0(t[0]) and f1(t[1]) and ...", or the
\* filter of the lowest position when rows are single values
_resolve_filters(columns, filters, want_tuple) ==
    IF filters = None \/ (~filters[1].callable /\ DOMAIN filters[1].dict = {})
    THEN [res |-> "ok", given |-> FALSE, callable |-> FALSE, f |-> "",
          at |-> <<>>]
    ELSE IF filters[1].callable
    THEN [res |-> "ok", given |-> TRUE, callable |-> TRUE,
          f |-> filters[1].f, at |-> <<>>]
    ELSE LET p == positions(columns, filters[1].dict)
         IN [res |-> p.res, given |-> p.res = "ok", callable |-> FALSE,
             f |-> "", at |-> p.at]

\* filter_func(row)
filter_func(ff, row, want_tuple) ==
    IF ff.callable THEN CallRowFilter(ff.f, row, want_tuple)
    ELSE IF ~want_tuple
    THEN CallFilter(ff.at[CHOOSE i \in DOMAIN ff.at :
                              \A j \in DOMAIN ff.at : i <= j], row)
    ELSE \A i \in DOMAIN ff.at : CallFilter(ff.at[i], row[i])
\* imap(f, it) and ifilter(f, it)
imap(F(_), it) == [i \in DOMAIN it |-> F(it[i])]
ifilter(F(_), it) == SelectSeq(it, F)

\* "it[ix] = imap(trans, it[ix])" for the translators by position
translated_columns(tr, it) ==
    [i \in DOMAIN it |->
        IF i \in DOMAIN tr.translators
        THEN imap(LAMBDA v : CallTranslator(tr.translators[i], v), it[i])
        ELSE it[i]]

\* "it = izip(*it)" or "it = it[0]"
zipped(a, it) == IF a.want_tuple THEN izip(it) ELSE it[1]

\* "if rehash: it = d._hashfilter(sliceno, rehash, it)"
rehashed(d, fs, e, it) ==
    IF e.rehash # "" THEN _hashfilter(d, fs, e.sliceno, e.rehash, it) ELSE it

\* "if translation_func: it = imap(translation_func, it)"
translated_rows(tr, a, it) ==
    IF tr.translation_func # ""
    THEN imap(LAMBDA t : CallRowTranslator(tr.translation_func, t,
                                            a.want_tuple), it)
    ELSE it

\* "range_k in translators": translators holds the functions by the
\* position columns.index gave them and range_k is the name of a column;
\* no name equals a position
in_translators(range_k, translators) == FALSE

\* "if range: ..." : the rows within the range, judged by their own value
\* of the range column when the rows hold it and no callable translates
\* the rows, else by the stored column read alongside
ranged(d, fs, e, a, range, tr, it) ==
    LET range_k == range[1][1]
        range_bottom == range[1][2]
        range_top == range[1][3]
        c == d.columns[range_k]
        has_range_column ==
            /\ \E i \in DOMAIN a.columns : a.columns[i] = range_k
            /\ ~in_translators(range_k, tr.translators)
            /\ tr.translation_func = ""
        filter_it ==
            IF e.rehash # ""
            THEN _hashfilter(d, fs, e.sliceno, e.rehash,
                             _column_iterator(d, fs, None, range_k))
            ELSE _column_iterator(d, fs, Some(e.sliceno), range_k)
    IN IF range = None THEN it
       ELSE IF c.min = None
               \/ (range_check_function(range_bottom, range_top, c.min[1])
                   /\ range_check_function(range_bottom, range_top, c.max[1]))
       THEN it
       ELSE IF has_range_column
       THEN ifilter_range(it,
                          IF a.want_tuple THEN index(a.columns, range_k)
                          ELSE 0,
                          range_bottom, range_top)
       ELSE compress(it, imap(LAMBDA v : range_check_function(range_bottom,
                                                              range_top, v),
                              filter_it))

\* "if filter_func: it = ifilter(filter_func, it)"
filtered(ff, a, it) ==
    IF ff.given THEN ifilter(LAMBDA t : filter_func(ff, t, a.want_tuple), it)
    ELSE it

\* the body of the loop if the filter judged the stored rows and the rows
\* it let through were translated (C26 rests on the order of the two)
entry_rows_filter_first(d, fs, e, a, range, tr, ff) ==
    LET stored == [i \in DOMAIN a.columns |->
                      _column_iterator(d, fs,
                                       IF e.rehash # "" THEN None
                                       ELSE Some(e.sliceno), a.columns[i])]
        verdicts == imap(LAMBDA t : ~ff.given
                                       \/ filter_func(ff, t, a.want_tuple),
                         rehashed(d, fs, e, zipped(a, stored)))
    IN [res |-> "ok",
        rows |-> compress(
                     translated_rows(tr, a,
                         rehashed(d, fs, e,
                                  zipped(a, translated_columns(tr, stored)))),
                     verdicts)]

\* the body of the loop of _iterate_datasets from d._iterator on: the
\* iterator it that is yielded for the plan entry e, as the rows it gives,
\* with the translators tr and the filter ff resolved by iterate_list
entry_rows(d, fs, e, a, range, tr, ff) ==
    IF {a.columns[i] : i \in DOMAIN a.columns} \ DOMAIN d.columns # {}
    THEN [res |-> "AssertionError", rows |-> <<>>]
    ELSE [res |-> "ok",
          rows |->
              filtered(ff, a,
               ranged(d, fs, e, a, range, tr,
                translated_rows(tr, a,
                 rehashed(d, fs, e,
                  zipped(a,
                   translated_columns(tr,
                    [i \in DOMAIN a.columns |->
                        _column_iterator(d, fs,
                                         IF e.rehash # "" THEN None
                                         ELSE Some(e.sliceno),
                                         a.columns[i])]))))))]

\* events followed by what comes after them
After(events, out) == [res |-> out.res, events |-> events \o out.events]
Return(events) == [res |-> "ok", events |-> events]

\* was the callback wrapped by argfixup (it takes one argument)?
unsliced(func) == func # None /\ func[1].nargs = 1

\* what a round of the loop leads to: go is "body" (the iterator is made
\* next), "continue" (the next round), "return" or "raise" (of res); st
\* holds skip_ds and the seen_ds[0] of the two wrappers
Leads(go, res, events, st) ==
    [go |-> go, res |-> res, events |-> events, st |-> st]

\* "pre_callback(d, sliceno)" and its except clauses, after the calls made
\* before it; w is what the call did
after_pre(a, e, st, calls, w) ==
    LET st2 == [st EXCEPT !.pre_seen = w.seen]
        skipping == [st2 EXCEPT !.skip_ds = e.d]
        events == calls \o w.calls
    IN IF w.raised = "" THEN Leads("body", "ok", events, st2)
       ELSE IF w.raised = "SkipSlice"
       THEN Leads("continue", "ok", events,
                  IF unsliced(a.pre_callback) THEN skipping ELSE st2)
       ELSE IF w.raised = "SkipJob"
       THEN Leads("continue", "ok", events, skipping)
       ELSE IF w.raised = "StopIteration"
       THEN Leads("return", "ok", events, st2)
       ELSE Leads("raise", w.raised, events, st2)

\* the call of pre_callback for the entry e
pre_call(a, e, st) ==
    IF unsliced(a.pre_callback)
    THEN wrapper(a.pre_callback[1], FALSE, st.pre_seen, st.skip_ds, e.d)
    ELSE [calls |-> <<CallEvent("pre", a.pre_callback[1], e.d, e.sliceno)>>,
          seen |-> st.pre_seen,
          raised |-> call(a.pre_callback[1], e.d, e.sliceno)]

\* "if unsliced_post_callback: post_callback(d)" first in the round, and
\* "if pre_callback: if d == skip_ds: continue"; w is what the wrapper of
\* post_callback did
after_post(a, e, st, w) ==
    LET st1 == [st EXCEPT !.post_seen = w.seen]
    IN IF w.raised = "StopIteration" THEN Leads("return", "ok", w.calls, st1)
       ELSE IF w.raised # "" THEN Leads("raise", w.raised, w.calls, st1)
       ELSE IF a.pre_callback = None THEN Leads("body", "ok", w.calls, st1)
       ELSE IF e.d = st.skip_ds THEN Leads("continue", "ok", w.calls, st1)
       ELSE after_pre(a, e, st1, w.calls, pre_call(a, e, st1))

\* the round for the entry e up to the making of the iterator
before_rows(a, e, st) ==
    after_post(a, e, st,
               IF unsliced(a.post_callback)
               THEN wrapper(a.post_callback[1], TRUE, st.post_seen,
                            st.skip_ds, e.d)
               ELSE [calls |-> <<>>, seen |-> st.post_seen, raised |-> ""])

\* "yield it", and "post_callback(d, sliceno)" of a callback that is not
\* wrapped; b is what came before and one the iterator
after_rows(a, e, b, one) ==
    LET rows == [i \in DOMAIN one.rows |-> RowEvent(e, one.rows[i])]
        p == IF a.post_callback # None /\ ~unsliced(a.post_callback)
             THEN call(a.post_callback[1], e.d, e.sliceno) ELSE ""
        calls == IF a.post_callback # None /\ ~unsliced(a.post_callback)
                 THEN <<CallEvent("post", a.post_callback[1], e.d,
                                  e.sliceno)>>
                 ELSE <<>>
    IN IF one.res # "ok" THEN Leads("raise", one.res, b.events, b.st)
       ELSE Leads(IF p = "" THEN "continue"
                  ELSE IF p = "StopIteration" THEN "return" ELSE "raise",
                  IF p \in {"", "StopIteration"} THEN "ok" ELSE p,
                  b.events \o rows \o calls, b.st)

\* one round of the loop of _iterate_datasets
with_rows(ds, fs, e, a, range, tr, ff, b) ==
    IF b.go # "body" THEN b
    ELSE after_rows(a, e, b,
                    entry_rows(ds[Pickle(e.d)], fs, e, a, range, tr, ff))
round(ds, fs, e, a, range, tr, ff, st) ==
    with_rows(ds, fs, e, a, range, tr, ff, before_rows(a, e, st))

\* "if unsliced_post_callback: post_callback(None)" after the loop
after_loop(a, st) ==
    IF unsliced(a.post_callback)
    THEN LET w == wrapper(a.post_callback[1], TRUE, st.post_seen,
                          st.skip_ds, "")
         IN [res |-> IF w.raised \in {"", "StopIteration"} THEN "ok"
                     ELSE w.raised,
             events |-> w.calls]
    ELSE Return(<<>>)

\* the generator _iterate_datasets(to_iter, ...) consumed to its end, from
\* the round for the first entry of to_iter on: the events in their
\* order, and the exception that left the generator ("ok" when it
\* returned)
RECURSIVE driver(_, _, _, _, _, _, _, _)
next_round(ds, fs, to_iter, a, range, tr, ff, r) ==
    IF r.go = "continue"
    THEN After(r.events,
               driver(ds, fs, Tail(to_iter), a, range, tr, ff, r.st))
    ELSE [res |-> r.res, events |-> r.events]
driver(ds, fs, to_iter, a, range, tr, ff, st) ==
    IF to_iter = <<>> THEN after_loop(a, st)
    ELSE next_round(ds, fs, to_iter, a, range, tr, ff,
                    round(ds, fs, Head(to_iter), a, range, tr, ff, st))

\* the driver as it starts: skip_ds = None, seen_ds = [None] twice
_iterate_datasets_events(ds, fs, to_iter, a, range, tr, ff) ==
    driver(ds, fs, to_iter, a, range, tr, ff,
           [skip_ds |-> "", pre_seen |-> "", post_seen |-> ""])
\* what a consumer gets from one generator by asking for a value again and
\* again: each time the calls made until a row arrives, and the row; the
\* last time the calls made until the generator is left, and no row
RECURSIVE fetches(_)
fetches(events) ==
    IF \A i \in DOMAIN events : events[i].ev # "row"
    THEN <<[calls |-> events, row |-> <<>>]>>
    ELSE LET n == CHOOSE i \in DOMAIN events :
                     /\ events[i].ev = "row"
                     /\ \A j \in 1 .. i - 1 : events[j].ev # "row"
         IN <<[calls |-> SubSeq(events, 1, n - 1), row |-> <<events[n]>>]>>
            \o fetches(SubSeq(events, n + 1, Len(events)))

\* the generators consumed one after the other instead (C21 rests on the
\* turns izip_longest takes)
chain_slices(gen, todo) ==
    [res |-> IF \E ix \in 1 .. Slices : gen[ix].res # "ok"
             THEN gen[CHOOSE ix \in 1 .. Slices : gen[ix].res # "ok"].res
             ELSE "ok",
     events |-> Concat([ix \in 1 .. Slices |-> gen[ix].events])]

\* izip_longest(*todo) with the fill values left out, over the generators
\* gen with the fetches todo they answer: round by round a value is
\* fetched from every generator that is not exhausted, in slice order,
\* and then the values of the round are yielded; a generator that raises
\* ends it all
izip_longest(gen, todo) ==
    LET failing == {ix \in 1 .. Slices : gen[ix].res # "ok"}
        \* the first generator to raise, and the round it does so in
        bad == CHOOSE ix \in failing :
                   \A jx \in failing :
                       \/ Len(todo[ix]) < Len(todo[jx])
                       \/ Len(todo[ix]) = Len(todo[jx]) /\ ix <= jx
        last == IF failing # {} THEN Len(todo[bad])
                ELSE CHOOSE n \in {Len(todo[ix]) : ix \in 1 .. Slices} :
                        \A ix \in 1 .. Slices : n >= Len(todo[ix])
        round_calls(r) ==
            Concat([ix \in 1 .. (IF failing # {} /\ r = last THEN bad
                                 ELSE Slices) |->
                       IF r <= Len(todo[ix]) THEN todo[ix][r].calls
                       ELSE <<>>])
        round_rows(r) ==
            IF failing # {} /\ r = last THEN <<>>
            ELSE Concat([ix \in 1 .. Slices |->
                            IF r <= Len(todo[ix]) THEN todo[ix][r].row
                            ELSE <<>>])
    IN [res |-> IF failing # {} THEN gen[bad].res ELSE "ok",
        events |-> Concat([r \in 1 .. last |->
                              round_calls(r) \o round_rows(r)])]

\* rr_inner(d, rehash): a generator of _iterate_datasets for each slice of
\* d, each with the one part (d, ix, rehash), and izip_longest over them
rr_fetch(gen) ==
    izip_longest(gen, [ix \in 1 .. Slices |-> fetches(gen[ix].events)])
rr_inner(ds, fs, e, a, range, tr, ff) ==
    rr_fetch([ix \in 1 .. Slices |->
                 _iterate_datasets_events(
                     ds, fs, <<[e EXCEPT !.sliceno = ix - 1]>>, a, range,
                     tr, ff)])

\* rr_outer(): rr_inner for each entry of to_iter, one after the other
RECURSIVE rr_outer(_, _, _, _, _, _, _)
rr_next(ds, fs, to_iter, a, range, tr, ff, one) ==
    IF one.res # "ok" THEN one
    ELSE After(one.events, rr_outer(ds, fs, Tail(to_iter), a, range, tr, ff))
rr_outer(ds, fs, to_iter, a, range, tr, ff) ==
    IF to_iter = <<>> THEN Return(<<>>)
    ELSE rr_next(ds, fs, to_iter, a, range, tr, ff,
                 rr_inner(ds, fs, Head(to_iter), a, range, tr, ff))

\* the iterator iterate_list returns, consumed to its end
drive(ds, fs, to_iter, a, range, tr, ff) ==
    IF a.sliceno = roundrobin
    THEN rr_outer(ds, fs, to_iter, a, range, tr, ff)
    ELSE _iterate_datasets_events(ds, fs, to_iter, a, range, tr, ff)

\* iterate_list(sliceno, columns, datasets, range, sloppy_range, hashlabel,
\* pre_callback, post_callback, filters, translators, rehash) and the
\* iterator it returns consumed to its end: an exception of the call
\* itself leaves nothing read; otherwise the plan is driven, slice after
\* slice or round robin
planned(ds, fs, a, plan, ff, tr, out) ==
    IF plan.res # "ok" \/ ff.res # "ok" \/ tr.res # "ok"
    THEN [res |-> IF plan.res # "ok" THEN plan.res
                  ELSE IF ff.res # "ok" THEN ff.res ELSE tr.res,
          raised |-> "call", to_iter |-> <<>>, events |-> <<>>]
    ELSE [res |-> out.res,
          raised |-> IF out.res = "ok" THEN "" ELSE "iteration",
          to_iter |-> plan.to_iter, events |-> out.events]
resolved(ds, fs, a, plan, ff, tr) ==
    planned(ds, fs, a, plan, ff, tr,
            drive(ds, fs, plan.to_iter, a,
                  IF a.sloppy_range THEN None ELSE range_given(a.range),
                  tr, ff))
iterate_list_events(ds, fs, a, py3) ==
    resolved(ds, fs, a, plan_loop(ds, a.datasets, a, py3),
             _resolve_filters(a.columns, a.filters, a.want_tuple),
             _resolve_translators(a.columns, a.translators))
-----------------------------------------------------------------------------
(* Walking a chain with callbacks, filters and translators.  The datasets  *)
(* R/default and P/default exist before the job starts: other jobs wrote   *)
(* them through split writers with hashlabel v, the second with            *)
(* previous = R.  The job iterates over the chain of P.                    *)

\* the rows such a job may have written: none, or more for one slice than
\* for the other
WalkShapes ==
    {<<>>,
     <<[k |-> 0, v |-> MaxVal], [k |-> MaxVal, v |-> MaxVal],
       [k |-> 0, v |-> 0]>>,
     <<[k |-> MaxVal, v |-> MaxVal], [k |-> 0, v |-> 0],
       [k |-> MaxVal, v |-> 0]>>}

\* what the split writers of job jobid and _append made of rows: the
\* slice files, a descriptor for each column with the extremes the
\* writers tracked, and _maybe_merge on k, then on v
SplitWritten(jobid, rows) ==
    LET at(s) == SelectSeq(rows, LAMBDA r : split_hash_slice(r.v) = s)
        fs0 == [fn \in {<<jobid, "default", SliceStr(s), c>> :
                           s \in SliceNos, c \in {"k", "v"}} |->
                   LET part == at(CHOOSE s \in SliceNos : SliceStr(s) = fn[3])
                   IN [i \in DOMAIN part |-> part[i][fn[4]]]]
        vals(c) == {rows[i][c] : i \in DOMAIN rows}
        least(c) == IF rows = <<>> THEN None
                    ELSE Some(CHOOSE x \in vals(c) : \A y \in vals(c) : x <= y)
        most(c) == IF rows = <<>> THEN None
                   ELSE Some(CHOOSE x \in vals(c) : \A y \in vals(c) : x >= y)
        cols0 == [c \in {"k", "v"} |->
                     DatasetColumn(TypeOf(c), c, <<jobid, "default", "%s", c>>,
                                   least(c), most(c), None)]
        m1 == _maybe_merge(cols0, fs0, "k")
        m2 == _maybe_merge(m1.cols, m1.fs, "v")
    IN [cols |-> m2.cols, fs |-> m2.fs,
        lines |-> [s \in 1 .. Slices |-> Len(at(s - 1))]]

SplitDataset(jobid, rows, previous) ==
    [hashlabel |-> "v", columns |-> SplitWritten(jobid, rows).cols,
     previous |-> previous, parent |-> None,
     lines |-> SplitWritten(jobid, rows).lines,
     cache |-> None, cache_distance |-> None]

InitWalk ==
    /\ running = "synthesis"
    /\ g_sliceno = None
    /\ \E older \in WalkShapes, newer \in WalkShapes :
          /\ datasets = (RId :> SplitDataset("R", older, ""))
                        @@ (ParentId :> SplitDataset("P", newer, _dsid("R")))
          /\ files = SplitWritten("R", older).fs @@ SplitWritten("P", newer).fs
    /\ saved_by = (RId :> "finish") @@ (ParentId :> "finish")
    /\ dw = NewWriter(running, "", "", FALSE, None, <<>>)
    /\ writers = <<>>
    /\ allwriters = <<>>
    /\ datasets_written = <<>>
    /\ registry = {dsname}
    /\ written = <<>>
    /\ rewritten = {}
    /\ called = NoCall
    /\ NoDaemon

\* self.iterate_chain(sliceno, columns, range=range, hashlabel=hashlabel,
\* pre_callback=..., post_callback=..., filters=..., translators=...,
\* rehash=rehash) consumed to its end: chain, then iterate_list over it
iterate_chain_events(self, a, py3) ==
    LET c == chain(datasets, Dataset(datasets, self), -1, FALSE, "")
        args == [a EXCEPT !.datasets = [i \in DOMAIN c.chain |-> c.chain[i].id]]
    IN
    /\ c.res = "ok"
    /\ called' = [op |-> "walk", a |-> args,
                  out |-> iterate_list_events(datasets, files, args, py3)]
    /\ UNCHANGED <<running, g_sliceno, dw, writers, allwriters, files,
                   datasets, saved_by, datasets_written, registry, written,
                   rewritten, daemon>>

\* the arguments of the calls
WalkSlices == ReadSlices \cup {roundrobin}
WalkDatasets == {"R", "P"}
Raised == {"SkipSlice", "SkipJob", "StopIteration"}
PreCallbacks ==
    {None}
    \cup {Some(Callback(n, "", "R", 0)) : n \in 1 .. 2}
    \cup {Some(Callback(1, r, d, 0)) : r \in Raised, d \in WalkDatasets}
    \cup {Some(Callback(2, x[1], x[2], x[3])) :
             x \in Raised \X WalkDatasets \X SliceNos}
PostCallbacks ==
    {None}
    \cup {Some(Callback(n, "", "R", 0)) : n \in 1 .. 2}
    \cup {Some(Callback(1, "StopIteration", d, 0)) : d \in WalkDatasets}
    \cup {Some(Callback(2, "StopIteration", x[1], x[2])) :
             x \in WalkDatasets \X SliceNos}
Translators ==
    {None, Callable("flip"), ByColumn("k" :> "shift"),
     ByColumn("v" :> "flip"), ByColumn(("k" :> "flip") @@ ("v" :> "shift"))}
Filters ==
    {None, Callable("is_max"), ByColumn("k" :> ""), ByColumn("k" :> "is_max"),
     ByColumn(("k" :> "is_max") @@ ("v" :> ""))}

WalkArgs(slicenos, columns, ranges, hashlabels, pres, posts, fils, trs) ==
    {a \in [sliceno : slicenos, columns : {c.columns : c \in columns},
            want_tuple : BOOLEAN, datasets : {<<>>}, range : ranges,
            sloppy_range : {FALSE}, hashlabel : hashlabels, rehash : BOOLEAN,
            pre_callback : pres, post_callback : posts, filters : fils,
            translators : trs] :
        /\ [columns |-> a.columns, want_tuple |-> a.want_tuple] \in columns
        /\ a.rehash = (a.hashlabel # "v")}

\* calls with callbacks, and calls with filters and translators
CallbackArgs ==
    WalkArgs(WalkSlices,
             {c \in ReadColumns : c.columns # <<"v">>}, {None}, {"v"},
             PreCallbacks, PostCallbacks, {None}, {None})
FilterArgs ==
    WalkArgs(WalkSlices, ReadColumns, {None, Some(<<"k", Some(1), None>>)},
             {"v", "k"}, {None}, {None}, Filters, Translators)

NextWalk ==
    \/ \E a \in CallbackArgs, py3 \in BOOLEAN :
          /\ called = NoCall
          /\ iterate_chain_events(ParentId, a, py3)
    \/ \E a \in FilterArgs, py3 \in BOOLEAN :
          /\ called = NoCall
          /\ iterate_chain_events(ParentId, a, py3)

SpecWalk == InitWalk /\ [][NextWalk]_vars

-----------------------------------------------------------------------------
(* The properties of walking a chain.                                      *)

\* the rows among the events, each with the dataset it came from
Yielded(events) ==
    LET rows == SelectSeq(events, LAMBDA x : x.ev = "row")
    IN [i \in DOMAIN rows |-> <<rows[i].d, rows[i].row[1]>>]

\* the rehash the plan carries for the dataset t: none with sliceno None
RehashOn(a, t) ==
    IF /\ a.sliceno # None
       /\ a.hashlabel # "" /\ datasets[Pickle(t)].hashlabel # a.hashlabel
    THEN a.hashlabel ELSE ""

\* the slices of the dataset t as a call reads them: as stored, or rehashed
SliceOf(a, t, s) ==
    EntryRows([d |-> t, sliceno |-> s, rehash |-> RehashOn(a, t)])

\* element i of slice 0, of slice 1, ..., then element i + 1 of each, the
\* slices that have no such element left out, up to the longest slice
TakeTurns(a, t) ==
    LET longest == CHOOSE n \in {Len(SliceOf(a, t, s)) : s \in SliceNos} :
                      \A s \in SliceNos : n >= Len(SliceOf(a, t, s))
    IN Concat([i \in 1 .. longest |->
                  Concat([ix \in 1 .. Slices |->
                             IF i <= Len(SliceOf(a, t, ix - 1))
                             THEN <<<<t, Emitted(a, SliceOf(a, t, ix - 1)[i])>>>>
                             ELSE <<>>])])

\* a call with sliceno="roundrobin" and nothing that skips, filters or
\* translates, consumed to its end
RoundRobinCall ==
    /\ called.op = "walk"
    /\ called.a.sliceno = roundrobin
    /\ called.a.pre_callback = None
    /\ called.a.post_callback = None
    /\ called.a.filters = None
    /\ called.a.translators = None
    /\ range_given(called.a.range) = None

\* C21: with slice="roundrobin" the rows come dataset by dataset, all rows
\* of one dataset before those of the next; within a dataset element i of
\* slice 0, then element i of slice 1, ..., then element i + 1 of slice 0
\* and so on, exhausted slices left out, up to the end of the longest
\* slice; every row of the dataset is yielded once.
C21_RoundRobin ==
    RoundRobinCall =>
        LET a == called.a
            rows == Yielded(called.out.events)
        IN /\ called.out.res = "ok"
           /\ rows = Concat([n \in DOMAIN ToVisit(a) |->
                                TakeTurns(a, ToVisit(a)[n])])
           /\ \A n \in DOMAIN ToVisit(a) :
                 LET t == ToVisit(a)[n]
                 IN SameMultiset(
                        SelectSeq(rows, LAMBDA r : r[1] = t),
                        [i \in DOMAIN AllStoredRows(t) |->
                            <<t, Emitted(a, AllStoredRows(t)[i])>>])

\* a round robin call over two datasets, slice 0 the longest of the one
\* and slice 1 the longest of the other
C21_Witness ==
    /\ RoundRobinCall
    /\ Len(ToVisit(called.a)) = 2
    /\ \E n, m \in DOMAIN ToVisit(called.a) :
          /\ Len(SliceOf(called.a, ToVisit(called.a)[n], 0))
                > Len(SliceOf(called.a, ToVisit(called.a)[n], 1))
          /\ Len(SliceOf(called.a, ToVisit(called.a)[m], 0))
                < Len(SliceOf(called.a, ToVisit(called.a)[m], 1))
          /\ Len(SliceOf(called.a, ToVisit(called.a)[m], 0)) > 0

\* where in the events the callback ev is called for the dataset t, and
\* where rows of t are yielded
CallsOf(ev, t) ==
    {i \in DOMAIN called.out.events :
        called.out.events[i].ev = ev /\ called.out.events[i].d = t}
RowsAt(t) == CallsOf("row", t)

\* no callback raised StopIteration
NeverStopped ==
    \A i \in DOMAIN called.out.events :
        called.out.events[i].raised # "StopIteration"

\* a call with a pre_callback of one argument that no StopIteration ends
UnslicedPreCall ==
    /\ called.op = "walk"
    /\ unsliced(called.a.pre_callback)
    /\ called.out.res = "ok"
    /\ NeverStopped

\* the pre_callback is called once for every dataset to visit, before the
\* rows of that dataset, and for no other dataset
PreOncePerDataset ==
    /\ \A t \in Range(ToVisit(called.a)) :
          /\ Cardinality(CallsOf("pre", t)) = 1
          /\ \A i \in CallsOf("pre", t), j \in RowsAt(t) : i < j
    /\ \A i \in DOMAIN called.out.events :
          called.out.events[i].ev = "pre"
             => called.out.events[i].d \in Range(ToVisit(called.a))

\* C22: a pre_callback that takes a single argument is called once for
\* every visited dataset, not once per slice, before any row of that
\* dataset is yielded, whether sliceno is a slice, None or "roundrobin".
C22_PreOncePerDataset == UnslicedPreCall => PreOncePerDataset

\* C22 for sliceno a slice or None
C22_PreOnceSliced ==
    (UnslicedPreCall /\ called.a.sliceno # roundrobin) => PreOncePerDataset

\* with sliceno="roundrobin" the callback is called once for every slice
\* of every visited dataset, each time before the rows of the dataset
C22_PreOncePerSlice ==
    (UnslicedPreCall /\ called.a.sliceno = roundrobin) =>
        \A t \in Range(ToVisit(called.a)) :
            /\ Cardinality(CallsOf("pre", t)) = Slices
            /\ \A i \in CallsOf("pre", t), j \in RowsAt(t) : i < j

\* the slices a call reads of every dataset it visits
SlicesRead(a) ==
    IF a.sliceno = None \/ a.sliceno = roundrobin THEN SliceNos
    ELSE {a.sliceno[1]}

\* the rows yielded for the slice s of the dataset t, and the rows the
\* slice holds as the call would yield them
RowsOfEntry(t, s) ==
    LET rows == SelectSeq(called.out.events,
                          LAMBDA x : /\ x.ev = "row" /\ x.d = t
                                     /\ x.sliceno = Some(s))
    IN [i \in DOMAIN rows |-> rows[i].row[1]]
AllOfEntry(a, t, s) ==
    [i \in DOMAIN SliceOf(a, t, s) |-> Emitted(a, SliceOf(a, t, s)[i])]

\* the calls of pre_callback that raised SkipSlice or SkipJob, and those
\* of them that skip the rest of the dataset: SkipJob, and SkipSlice from
\* a callback of one argument
Skips ==
    {i \in DOMAIN called.out.events :
        /\ called.out.events[i].ev = "pre"
        /\ called.out.events[i].raised \in {"SkipSlice", "SkipJob"}}
JobSkips ==
    {i \in Skips : \/ called.out.events[i].raised = "SkipJob"
                   \/ called.out.events[i].sliceno = None}

\* is the entry for slice s of the dataset t to be skipped: did the
\* callback raise for it, or for an entry of t before it to skip the rest?
Skipped(t, s) ==
    \E i \in Skips :
        /\ called.out.events[i].d = t
        /\ \/ called.out.events[i].sliceno = Some(s)
           \/ i \in JobSkips /\ called.out.events[i].sliceno = None
           \/ i \in JobSkips /\ called.out.events[i].sliceno # None
                             /\ called.out.events[i].sliceno[1] <= s

\* a call whose pre_callback raises SkipSlice or SkipJob, consumed to its
\* end, that no StopIteration ends
SkippingCall ==
    /\ called.op = "walk"
    /\ Skips # {}
    /\ called.out.res = "ok"
    /\ NeverStopped

SkipsAsSpecified ==
    /\ \A t \in Range(ToVisit(called.a)), s \in SlicesRead(called.a) :
          RowsOfEntry(t, s) = IF Skipped(t, s) THEN <<>>
                              ELSE AllOfEntry(called.a, t, s)
    /\ \A i \in JobSkips, j \in DOMAIN called.out.events :
          (j > i /\ called.out.events[j].ev = "pre")
             => called.out.events[j].d # called.out.events[i].d

\* C23: when a pre_callback of two arguments raises SkipSlice for an entry
\* (ds, s), no row of that entry is yielded and the other entries of ds
\* are processed; when a pre_callback raises SkipJob, or one of a single
\* argument raises SkipSlice, no row of a remaining entry of ds is yielded
\* and the callback is not called for ds again; either way the walk goes
\* on with the next dataset.
C23_Skips == SkippingCall => SkipsAsSpecified

\* C23 for sliceno a slice or None
C23_SkipsSliced ==
    (SkippingCall /\ called.a.sliceno # roundrobin) => SkipsAsSpecified

\* a SkipJob from a callback of two arguments at the first slice of the
\* first of two datasets, sliceno None: a later entry of the dataset holds
\* rows, and so does the next dataset
C23_Witness ==
    /\ SkippingCall
    /\ called.a.sliceno = None
    /\ Len(ToVisit(called.a)) = 2
    /\ \E i \in JobSkips :
          /\ called.out.events[i].d = ToVisit(called.a)[1]
          /\ called.out.events[i].sliceno = Some(0)
          /\ AllOfEntry(called.a, ToVisit(called.a)[1], 1) # <<>>
    /\ Yielded(called.out.events) # <<>>

\* the calls of callbacks that raised StopIteration
Stops ==
    {i \in DOMAIN called.out.events :
        called.out.events[i].raised = "StopIteration"}

\* a call one of whose callbacks raises StopIteration
StoppedCall == called.op = "walk" /\ Stops # {}

\* the walk ends with the call that raised, and the consumer sees the
\* iterator exhausted
StopEndsWalk ==
    /\ called.out.res = "ok"
    /\ Stops = {Len(called.out.events)}

\* C24: when a pre_callback or post_callback raises StopIteration the
\* whole walk ends cleanly: no further row is yielded, no callback is
\* called again for any dataset, and the consumer sees the iterator
\* exhausted, not an error.
C24_StopEndsWalk == StoppedCall => StopEndsWalk

\* C24 for sliceno a slice or None
C24_StopEndsWalkSliced ==
    (StoppedCall /\ called.a.sliceno # roundrobin) => StopEndsWalk

\* StopIteration raised for the first of two datasets with lines, by a
\* pre_callback and by a post_callback after rows were yielded
C24_Witness ==
    /\ StoppedCall
    /\ called.a.sliceno # roundrobin
    /\ Len(ToVisit(called.a)) = 2
    /\ \A i \in Stops : called.out.events[i].d = ToVisit(called.a)[1]
    /\ called.out.events[Len(called.out.events)].ev = "post"
    /\ Yielded(called.out.events) # <<>>

\* was the dataset t skipped through SkipJob (or SkipSlice from a callback
\* of one argument, which is the same)?
JobSkipped(t) == \E i \in JobSkips : called.out.events[i].d = t

\* the datasets to visit after t
After_(a, t) ==
    {ToVisit(a)[n] : n \in {m \in DOMAIN ToVisit(a) :
                               m > index(ToVisit(a), t)}}

\* a call with a post_callback, consumed to its end, that no
\* StopIteration ends
PostCall ==
    /\ called.op = "walk"
    /\ called.a.post_callback # None
    /\ called.out.res = "ok"
    /\ NeverStopped

\* a post_callback of one argument: once for every dataset to visit that
\* was not skipped, after its rows and before the pre_callback and the
\* rows of the datasets after it; never for a skipped dataset
UnslicedPostAsSpecified ==
    /\ \A t \in Range(ToVisit(called.a)) :
          /\ Cardinality(CallsOf("post", t)) = IF JobSkipped(t) THEN 0 ELSE 1
          /\ \A i \in CallsOf("post", t) :
                /\ \A j \in RowsAt(t) \cup CallsOf("pre", t) : j < i
                /\ \A u \in After_(called.a, t) :
                      \A j \in RowsAt(u) \cup CallsOf("pre", u) : i < j
    /\ \A i \in DOMAIN called.out.events :
          called.out.events[i].ev = "post"
             => called.out.events[i].d \in Range(ToVisit(called.a))

\* a post_callback of two arguments: once for every entry that was not
\* skipped, after the rows of the entry
SlicedPostAsSpecified ==
    \A t \in Range(ToVisit(called.a)), s \in SlicesRead(called.a) :
        LET calls == {i \in CallsOf("post", t) :
                         called.out.events[i].sliceno = Some(s)}
            rows == {i \in RowsAt(t) : called.out.events[i].sliceno = Some(s)}
        IN /\ Cardinality(calls) = IF Skipped(t, s) THEN 0 ELSE 1
           /\ \A i \in calls, j \in rows : j < i

PostAsSpecified ==
    IF unsliced(called.a.post_callback) THEN UnslicedPostAsSpecified
    ELSE SlicedPostAsSpecified

\* C25: a post_callback of a single argument is called once for each
\* visited dataset that was not skipped, after the last row of the
\* dataset's last plan entry and before the pre_callback of the next
\* dataset, the final dataset included when the walk runs to completion,
\* and never for a dataset skipped through SkipJob; a post_callback of two
\* arguments is called once for each entry (dataset, slice) that was not
\* skipped, after the rows of the entry.
C25_Post == PostCall => PostAsSpecified

\* C25 for sliceno a slice or None
C25_PostSliced ==
    (PostCall /\ called.a.sliceno # roundrobin) => PostAsSpecified

\* a post_callback of one argument over two datasets with lines, sliceno
\* None, the first skipped through SkipJob after rows of it were yielded
C25_Witness ==
    /\ PostCall
    /\ unsliced(called.a.post_callback)
    /\ called.a.sliceno = None
    /\ Len(ToVisit(called.a)) = 2
    /\ JobSkipped(ToVisit(called.a)[1])
    /\ RowsAt(ToVisit(called.a)[1]) # {}
    /\ CallsOf("post", ToVisit(called.a)[2]) # {}

\* a row as the translators of the call make it: a callable translates
\* the row, a dict the values of the columns it names
Translated(a, row) ==
    IF a.translators = None THEN row
    ELSE IF a.translators[1].callable
    THEN CallRowTranslator(a.translators[1].f, row, a.want_tuple)
    ELSE LET by(i, v) ==
                 IF a.columns[i] \in DOMAIN a.translators[1].dict
                 THEN CallTranslator(a.translators[1].dict[a.columns[i]], v)
                 ELSE v
         IN IF a.want_tuple THEN [i \in DOMAIN row |-> by(i, row[i])]
            ELSE by(1, row)

\* do the filters of the call accept the row: a callable judges the row,
\* a dict the values of the columns it names, all of which must say yes
Accepted(a, row) ==
    IF a.filters = None THEN TRUE
    ELSE IF a.filters[1].callable
    THEN CallRowFilter(a.filters[1].f, row, a.want_tuple)
    ELSE \A i \in DOMAIN a.columns :
            a.columns[i] \in DOMAIN a.filters[1].dict
               => CallFilter(a.filters[1].dict[a.columns[i]],
                             IF a.want_tuple THEN row[i] ELSE row)

\* a call with filters or translators that name columns of the call,
\* without a range
FilterCall ==
    /\ called.op = "walk"
    /\ called.a.filters # None \/ called.a.translators # None
    /\ range_given(called.a.range) = None
    /\ called.out.raised # "call"

\* the translated rows of slice s of the dataset t that the filters accept
Kept(a, t, s) ==
    LET rows == [i \in DOMAIN AllOfEntry(a, t, s) |->
                    Translated(a, AllOfEntry(a, t, s)[i])]
    IN SelectSeq(rows, LAMBDA r : Accepted(a, r))

\* C26: translators run before filters: every filter, a callable on the
\* row or a filter of a column, is evaluated on the values the translators
\* produced, never on the stored values, and a row is yielded, in its
\* translated form, exactly when the filters accept the translated row.
C26_TranslateThenFilter ==
    FilterCall =>
        /\ called.out.res = "ok"
        /\ \A t \in Range(ToVisit(called.a)), s \in SlicesRead(called.a) :
              RowsOfEntry(t, s) = Kept(called.a, t, s)
        /\ Len(Yielded(called.out.events))
              = SumSeq([n \in DOMAIN ToVisit(called.a) |->
                           SumSeq([i \in 1 .. Slices |->
                                      IF i - 1 \in SlicesRead(called.a)
                                      THEN Len(Kept(called.a,
                                                    ToVisit(called.a)[n],
                                                    i - 1))
                                      ELSE 0])])

\* a call with a translator and a filter where the filter accepts a
\* translated row whose stored form it would refuse, and refuses one whose
\* stored form it would accept
C26_Witness ==
    /\ FilterCall
    /\ called.a.filters # None
    /\ called.a.translators # None
    /\ \E t \in Range(ToVisit(called.a)), s \in SlicesRead(called.a) :
          LET stored == AllOfEntry(called.a, t, s)
          IN /\ \E i \in DOMAIN stored :
                   /\ Accepted(called.a, Translated(called.a, stored[i]))
                   /\ ~Accepted(called.a, stored[i])
             /\ \E i \in DOMAIN stored :
                   /\ ~Accepted(called.a, Translated(called.a, stored[i]))
                   /\ Accepted(called.a, stored[i])

-----------------------------------------------------------------------------
(* Merging small slices.  A meta_only writer declares the columns k and    *)
(* v, the caller puts the slice files in place, some small and some        *)
(* large, with the line counts of the dataset of job P, and finish         *)
(* persists the dataset.  The job then links a dataset under the name      *)
(* link, merges two datasets under the name merged and, when its own       *)
(* dataset is all it has written, may first link that under the name it    *)
(* has (link_to_here with the default name).                               *)

\* the most values a caller puts in a slice file
MaxPlaced == 3

\* what the caller puts in a slice file, and the types of its columns
MergeContents == {[i \in 1 .. n |-> ParentVal] : n \in 1 .. MaxPlaced}
MergeTypes(colname) ==
    IF colname = "k" THEN {"int64", "ascii"} ELSE {"ascii", "unicode"}

\* what the job passes for previous when it merges
MergedPrevious == {"", ParentId}

InitMerge ==
    /\ running = "prepare"
    /\ g_sliceno = None
    /\ datasets = (ParentId :> ParentDataset)
    /\ saved_by = (ParentId :> "finish")
    /\ files = ParentFiles
    /\ dw = NewWriter(running, "", "", TRUE, Some(0), <<>>)
    /\ writers = <<>>
    /\ allwriters = <<>>
    /\ datasets_written = <<>>
    /\ registry = {dsname}
    /\ written = <<>>
    /\ rewritten = {}
    /\ called = NoCall
    /\ NoDaemon

NextMerge ==
    \/ \E colname \in ColNames : \E coltype \in MergeTypes(colname) :
          add(colname, coltype)
    \/ \E colname \in DOMAIN dw.columns, sliceno \in SliceNos,
          vals \in MergeContents : place_file(colname, sliceno, vals)
    \/ \E sliceno \in SliceNos : set_lines(sliceno, ParentLines[sliceno + 1])
    \/ finish
    \/ \E self \in {ParentId, DsId} \cap DOMAIN datasets,
          override_previous \in {_no_override, ParentId} :
          /\ ~Usable /\ FullName(job, "link") \notin DOMAIN datasets
          /\ link_to_here(self, "link", {}, override_previous)
    \/ /\ datasets_written = <<dsname>>
       /\ link_to_here(DsId, dsname, {}, _no_override)
    \/ \E self \in DOMAIN datasets, other \in DOMAIN datasets,
          previous \in MergedPrevious, allow_unrelated \in BOOLEAN :
          /\ ~Usable /\ FullName(job, "merged") \notin DOMAIN datasets
          /\ merge(self, other, "merged", previous, allow_unrelated)

SpecMerge == InitMerge /\ [][NextMerge]_vars

\* the slice files and the merged file of the column the writer calls c
SliceFile(c, s) == <<job, dsname, SliceStr(s), dw._clean_names[c]>>
MergedFile(c) == <<job, dsname, "m", dw._clean_names[c]>>

\* the two storage forms of the column c of the record d, with the files fs
IsMerged(d, fs, c) ==
    /\ d.columns[c].offsets # None
    /\ d.columns[c].location = MergedFile(c)
    /\ MergedFile(c) \in DOMAIN fs
    /\ \A s \in SliceNos : SliceFile(c, s) \notin DOMAIN fs
IsSliced(d, fs, c) ==
    /\ d.columns[c].offsets = None
    /\ d.columns[c].location = <<job, dsname, "%s", dw._clean_names[c]>>
    /\ \A s \in SliceNos : SliceFile(c, s) \in DOMAIN fs

\* the sizes of the slice files of the column c
SliceSizes(fs, c) ==
    [i \in 1 .. Slices |-> FileSize(fs[SliceFile(c, i - 1)], dw.columns[c])]

\* C27: after finish each written column is in exactly one of two storage
\* forms: merged (offsets set, location without the slice placeholder, one
\* m file, no slice files) or sliced (offsets unset, a file per slice); it
\* is merged if and only if slices >= 2 and the sizes of the slice files
\* sum to at most 524288 * slices, a mean of exactly 524288 included; and
\* when merged, offsets[s] is the sum of the sizes of the slices before s.
C27_StorageForms ==
    [][(DsId \notin DOMAIN datasets /\ DsId \in DOMAIN datasets')
          => \A c \in DOMAIN dw.columns :
                LET d == datasets'[DsId]
                    sizes == SliceSizes(files, c)
                IN /\ IsMerged(d, files', c) # IsSliced(d, files', c)
                   /\ IsMerged(d, files', c)
                         <=> (Slices >= 2
                              /\ SumSeq(sizes) <= 524288 * Slices)
                   /\ IsMerged(d, files', c)
                         => /\ Len(d.columns[c].offsets) = Slices
                            /\ \A s \in SliceNos :
                                  d.columns[c].offsets[s + 1]
                                     = SumSeq(SubSeq(sizes, 1, s))
                            /\ FileSize(files'[MergedFile(c)], dw.columns[c])
                                  = SumSeq(sizes)]_vars

\* a finished dataset with a merged column whose slices had a mean size of
\* exactly MergeLimit and with a sliced column
C27_Witness ==
    /\ DsId \in DOMAIN datasets
    /\ \E c \in DOMAIN dw.columns :
          /\ IsMerged(datasets[DsId], files, c)
          /\ FileSize(files[MergedFile(c)], dw.columns[c])
                = MergeLimit * Slices
          /\ \A s \in SliceNos : datasets[DsId].columns[c].offsets[s + 1]
                                    = s * MergeLimit
    /\ \E c \in DOMAIN dw.columns : IsSliced(datasets[DsId], files, c)

-----------------------------------------------------------------------------
(* Properties of link_to_here and merge.                                   *)

\* the calls of link_to_here the job makes
LinkCalls ==
    [self : DOMAIN datasets, name : LinkNames, column_filter : ColumnFilters,
     override_previous : {_no_override, ParentId}]

\* the columns the filter of the call names that the source lacks
LeftOver(a) == a.column_filter \ DOMAIN datasets[a.self].columns

\* the call a took this step and saved a record
Linked(a) ==
    /\ datasets_written' # datasets_written
    /\ link_to_here(a.self, a.name, a.column_filter, a.override_previous)

\* the record the step saved for the call a is the source's, with the
\* columns of the filter
LinkedAsSpecified(a) ==
    LET src == datasets[a.self]
        d == datasets'[FullName(job, a.name)]
    IN /\ LeftOver(a) = {}
       /\ DOMAIN d.columns = IF a.column_filter = {} THEN DOMAIN src.columns
                             ELSE a.column_filter
       /\ \A c \in DOMAIN d.columns : d.columns[c] = src.columns[c]
       /\ d.parent = <<FullName(Spelled[a.self][1], Spelled[a.self][2])>>
       /\ d.lines = src.lines
       /\ d.hashlabel = src.hashlabel
       /\ d.previous = IF a.override_previous = _no_override
                       THEN src.previous
                       ELSE _dsid(a.override_previous)

\* C28: link_to_here(name, column_filter) persists a record in the job
\* that runs whose columns are the source's columns restricted to
\* column_filter (all of them without a filter) with their descriptors
\* unchanged, whose parent is the source as "job/name", and whose lines,
\* hashlabel and, unless override_previous is given, previous are the
\* source's; with a column in column_filter that the source lacks the call
\* fails and persists nothing.
C28_LinkToHere ==
    /\ [](\A a \in LinkCalls :
             LeftOver(a) # {} =>
                 link_to_here_res(a.self, a.column_filter,
                                  a.override_previous) # "ok")
    /\ [][\A a \in LinkCalls : Linked(a) => LinkedAsSpecified(a)]_vars

\* a record linked with a filter from a dataset of another job that has
\* more columns and a record linked from the writer's dataset, while a
\* filter that names a column its source lacks is at hand
C28_Witness ==
    /\ FullName(job, "link") \in DOMAIN datasets
    /\ saved_by[FullName(job, "link")] = "link_to_here"
    /\ LET d == datasets[FullName(job, "link")]
       IN /\ d.parent = <<ParentId>>
          /\ DOMAIN d.columns = {"v"}
          /\ DOMAIN datasets[ParentId].columns = {"p", "v"}
          /\ d.columns["v"] = datasets[ParentId].columns["v"]
          /\ d.lines = datasets[ParentId].lines
    /\ \E a \in LinkCalls : LeftOver(a) # {} /\ a.self = ParentId


\* the calls of merge the job makes after its writer is finished
MergeCalls ==
    [self : DOMAIN datasets, other : DOMAIN datasets, name : {"merged"},
     previous : MergedPrevious, allow_unrelated : BOOLEAN]

\* the call a took this step and saved a record
Merged(a) ==
    /\ datasets' # datasets
    /\ merge(a.self, a.other, a.name, a.previous, a.allow_unrelated)

\* the record the step saved for the call a
MergedAsSpecified(a) ==
    LET s == datasets[a.self]
        o == datasets[a.other]
        d == datasets'[FullName(job, a.name)]
    IN /\ DOMAIN d.columns = DOMAIN s.columns \cup DOMAIN o.columns
       /\ \A c \in DOMAIN o.columns : d.columns[c] = o.columns[c]
       /\ \A c \in DOMAIN s.columns \ DOMAIN o.columns :
             d.columns[c] = s.columns[c]
       /\ d.parent = <<a.self, a.other>>
       /\ d.lines = s.lines /\ d.lines = o.lines
       /\ d.previous = a.previous

\* C29: a successful self.merge(other, previous=p) persists a record whose
\* columns are those of both datasets, with the descriptor of other for a
\* name both have, whose parent is the pair (self, other), whose lines are
\* those of both, and whose previous is p: None when p is left out, also
\* when self or other has a previous.
C29_Merge == [][\A a \in MergeCalls : Merged(a) => MergedAsSpecified(a)]_vars

\* a merged record without previous, of a dataset with a previous and one
\* that describes a column of the same name otherwise
C29_Witness ==
    /\ FullName(job, "merged") \in DOMAIN datasets
    /\ saved_by[FullName(job, "merged")] = "merge"
    /\ LET d == datasets[FullName(job, "merged")]
           s == datasets[d.parent[1]]
           o == datasets[d.parent[2]]
       IN /\ d.previous = ""
          /\ s.previous # ""
          /\ \E c \in DOMAIN s.columns \cap DOMAIN o.columns :
                s.columns[c] # o.columns[c] /\ d.columns[c] = o.columns[c]
          /\ DOMAIN s.columns \ DOMAIN o.columns # {}
          /\ DOMAIN o.columns \ DOMAIN s.columns # {}


\* the calls of merge on the persisted datasets
MergeAttempts ==
    [self : DOMAIN datasets, other : DOMAIN datasets,
     previous : MergeArgs \cup MergedPrevious, allow_unrelated : BOOLEAN]

\* the datasets ids descend from through parent links, both members of a
\* pair followed, themselves included
RECURSIVE AncestorsOf(_)
AncestorsOf(ids) ==
    LET up == ids \cup UNION {{datasets[i].parent[n] :
                                  n \in DOMAIN datasets[i].parent} :
                              i \in ids}
    IN IF up = ids THEN ids ELSE AncestorsOf(up)
RootAncestors(id) == {i \in AncestorsOf({id}) : datasets[i].parent = None}

\* id or an ancestor of it descends from itself
SelfDescended(id) ==
    \E i \in AncestorsOf({id}) :
       i \in AncestorsOf({datasets[i].parent[n] :
                             n \in DOMAIN datasets[i].parent})

\* the four misuses of merge
SameDataset(a) == a.self = a.other
LinesDiffer(a) == datasets[a.self].lines # datasets[a.other].lines
HashlabelsDiffer(a) ==
    /\ datasets[a.self].hashlabel # ""
    /\ datasets[a.other].hashlabel # ""
    /\ datasets[a.self].hashlabel # datasets[a.other].hashlabel
Unrelated(a) ==
    /\ ~a.allow_unrelated
    /\ RootAncestors(a.self) \cap RootAncestors(a.other) = {}
MergeMisuse(a) ==
    SameDataset(a) \/ LinesDiffer(a) \/ HashlabelsDiffer(a) \/ Unrelated(a)

\* how the call a ends
MergeEnds(a) == merge_res(a.self, a.other, a.previous, a.allow_unrelated)

\* no step saves a record for a call that is a misuse
MisuseSavesNothing ==
    [][\A a \in MergeAttempts, name \in MergeNames :
          (/\ datasets' # datasets
           /\ merge(a.self, a.other, name, a.previous, a.allow_unrelated))
          => ~MergeMisuse(a)]_vars

C30_MergeEndsAsCoded ==
    /\ [](\A a \in MergeAttempts :
             MergeEnds(a) =
                IF SameDataset(a) \/ LinesDiffer(a) \/ HashlabelsDiffer(a)
                THEN "DatasetUsageError"
                ELSE IF ~a.allow_unrelated
                        /\ (SelfDescended(a.self) \/ SelfDescended(a.other))
                THEN "RecursionError"
                ELSE IF Unrelated(a) THEN "DatasetUsageError"
                ELSE IF a.previous = "" \/ Exists(datasets, a.previous)
                THEN "ok" ELSE "NoSuchDatasetError")
    /\ MisuseSavesNothing

-----------------------------------------------------------------------------
(* The names of the column files.  A meta_only writer, with the dataset    *)
(* of job P as its parent or without parent, declares at most MaxColumns   *)
(* columns under names with capitals, dots, digits and a keyword; the      *)
(* caller places their files and finish persists the dataset, which the    *)
(* job then links and merges with that of job P.                           *)

\* the most columns the writer declares
MaxColumns == 2

\* the names the columns are declared under
NameArgs == {"k", "V", "k.", "k_", "1k", "if"}

InitNames ==
    /\ running = "prepare"
    /\ g_sliceno = None
    /\ datasets = (ParentId :> ParentDataset)
    /\ saved_by = (ParentId :> "finish")
    /\ files = ParentFiles
    /\ \E parent \in {"", ParentId} :
          dw = NewWriter(running, "", parent, TRUE, Some(0),
                         IF parent = "" THEN <<>>
                         ELSE datasets[parent].columns)
    /\ writers = <<>>
    /\ allwriters = <<>>
    /\ datasets_written = <<>>
    /\ registry = {dsname}
    /\ written = <<>>
    /\ rewritten = {}
    /\ called = NoCall
    /\ NoDaemon

NextNames ==
    \/ \E colname \in NameArgs :
          /\ Cardinality(DOMAIN dw.columns) < MaxColumns
          /\ add(colname, "int64")
    \/ \E colname \in DOMAIN dw.columns, sliceno \in SliceNos :
          place_file(colname, sliceno, <<ParentVal>>)
    \/ \E sliceno \in SliceNos : set_lines(sliceno, ParentLines[sliceno + 1])
    \/ finish
    \/ /\ ~Usable /\ FullName(job, "link") \notin DOMAIN datasets
       /\ DsId \in DOMAIN datasets
       /\ link_to_here(DsId, "link", {}, _no_override)
    \/ \E self \in DOMAIN datasets, other \in DOMAIN datasets :
          /\ ~Usable /\ FullName(job, "merged") \notin DOMAIN datasets
          /\ merge(self, other, "merged", "", TRUE)

SpecNames == InitNames /\ [][NextNames]_vars

\* the cleaned names of the record d are distinct whatever the case, none
\* is a keyword and none starts with a digit
NamesClean(d) ==
    /\ \A a \in DOMAIN d.columns, b \in DOMAIN d.columns :
          a # b => str_lower(d.columns[a].name) # str_lower(d.columns[b].name)
    /\ \A a \in DOMAIN d.columns :
          /\ ~iskeyword(d.columns[a].name)
          /\ ~isdigit(Characters(d.columns[a].name)[1])

\* C31: in every record persisted by finish (with or without parent),
\* link_to_here or merge no two columns have the same cleaned name,
\* compared without regard to case, and no cleaned name is a keyword or
\* starts with a digit.
C31_NamesClean == \A id \in DOMAIN datasets : NamesClean(datasets[id])

\* what holds: the records that finish and link_to_here persist have clean
\* names, and so has a merged record whose two datasets share every
\* cleaned name only under the same column name
C31_NamesCleanUnlessMerged ==
    \A id \in DOMAIN datasets :
       saved_by[id] # "merge" => NamesClean(datasets[id])

\* a merged record with the column v of job P and the column V of the
\* writer, both stored under a name that is v in lower case
C31_Witness ==
    /\ FullName(job, "merged") \in DOMAIN datasets
    /\ LET d == datasets[FullName(job, "merged")]
       IN /\ {"v", "V"} \subseteq DOMAIN d.columns
          /\ d.columns["v"].name = "v"
          /\ d.columns["V"].name = "V"
          /\ ~NamesClean(d)

-----------------------------------------------------------------------------
(* The list of the datasets a job has written.                             *)

\* the writer's finish has succeeded: under the names the job links and
\* merges under, only finish notes the name of the writer's dataset
Succeeded == \E i \in DOMAIN datasets_written : datasets_written[i] = dsname

\* the step is a finish that succeeds
FinishSucceeds ==
    /\ datasets' # datasets
    /\ finish_res = "ok"
    /\ finish

\* C32: after a successful finish the writer is off the registry and its
\* name is in the list of written datasets exactly once, appended by the
\* finish, the list growing at its end only; a second finish fails and
\* does not append the name again.
C32_FinishOnce ==
    /\ [](Succeeded =>
             /\ dsname \notin registry
             /\ Count(datasets_written, dsname) = 1
             /\ DsId \in DOMAIN datasets
             /\ finish_res # "ok")
    /\ [][FinishSucceeds =>
             /\ registry' = registry \ {dsname}
             /\ datasets_written' = Append(datasets_written, dsname)]_vars
    /\ [][\/ datasets_written' = datasets_written
          \/ /\ Len(datasets_written') = Len(datasets_written) + 1
             /\ SubSeq(datasets_written', 1, Len(datasets_written))
                   = datasets_written]_vars

\* the writer's dataset and then a link were written, in that order, and
\* another finish would save the record again and fail at the registry
C32_Witness ==
    /\ Succeeded
    /\ datasets_written = <<dsname, "link">>
    /\ finish_res = "KeyError"

-----------------------------------------------------------------------------
(* The hashlabel of a persisted record.                                    *)

\* the record d has no hashlabel or one that names a column it has
HashlabelPresent(d) == d.hashlabel = "" \/ d.hashlabel \in DOMAIN d.columns

\* C33: in every record persisted by Dataset.new, by finish with a parent,
\* by link_to_here with or without column_filter, or by merge, hashlabel
\* is unset or names a column that is among the record's columns.
C33_HashlabelPresent ==
    \A id \in DOMAIN datasets : HashlabelPresent(datasets[id])

\* what holds: the records that finish and merge persist, and those that
\* link_to_here persists with every column of its source
C33_HashlabelPresentUnfiltered ==
    \A id \in DOMAIN datasets :
       (saved_by[id] = "link_to_here"
        /\ DOMAIN datasets[id].columns
              # DOMAIN datasets[datasets[id].parent[1]].columns)
       \/ HashlabelPresent(datasets[id])

\* the dataset of job P, hashed on p, linked with the column v alone
C33_Witness ==
    /\ FullName(job, "link") \in DOMAIN datasets
    /\ LET d == datasets[FullName(job, "link")]
       IN /\ d.parent = <<ParentId>>
          /\ DOMAIN d.columns = {"v"}
          /\ d.hashlabel = "p"
          /\ HashlabelPresent(datasets[ParentId])

-----------------------------------------------------------------------------
(* The previous relation.                                                  *)

\* the walk along previous from the record of id comes to an end
WalkEnds(id) ==
    chain(datasets, Dataset(datasets, id), -1, FALSE, "").res
        # "never returns"

\* C34: after any sequence of finish, link_to_here with override_previous
\* and merge with previous, following previous from any persisted dataset
\* never comes back to a dataset already passed: chain(length=-1) returns
\* for every persisted dataset.
C34_PreviousAcyclic == \A id \in DOMAIN datasets : WalkEnds(id)

\* C34, as long as no record was saved over
C34_PreviousAcyclicUnchanged ==
    rewritten = {} => \A id \in DOMAIN datasets : WalkEnds(id)

\* a dataset linked a second time under its name with itself as
\* override_previous, and a chain call on it that does not return
C34_Witness ==
    /\ FullName(job, "a") \in DOMAIN datasets
    /\ datasets[FullName(job, "a")].previous = FullName(job, "a")
    /\ called.op = "chain"
    /\ called.out.res = "never returns"

-----------------------------------------------------------------------------
(* Ranges and translators.                                                 *)

\* a call with a range and translators and without filters
TranslatedRangeCall ==
    /\ called.op = "walk"
    /\ range_given(called.a.range) # None
    /\ called.a.translators # None
    /\ called.a.filters = None
    /\ called.out.raised # "call"

\* the rows of slice s of the dataset t whose stored value of the range
\* column is within the range, as the call yields them without translators
InRangeStored(a, t, s) ==
    LET within == SelectSeq(SliceOf(a, t, s),
                            LAMBDA r : InRange(a.range, r[a.range[1][1]]))
    IN [i \in DOMAIN within |-> Emitted(a, within[i])]

\* the rows yielded are those the call yields without translators, each
\* translated
SelectedAsStored ==
    /\ called.out.res = "ok"
    /\ \A t \in Range(ToVisit(called.a)), s \in SlicesRead(called.a) :
          RowsOfEntry(t, s)
             = [i \in DOMAIN InRangeStored(called.a, t, s) |->
                   Translated(called.a, InRangeStored(called.a, t, s)[i])]

\* is the range column of the call among its columns, with a translator
\* of its own
RangeColumnTranslated(a) ==
    /\ ~a.translators[1].callable
    /\ a.range[1][1] \in DOMAIN a.translators[1].dict
    /\ \E i \in DOMAIN a.columns : a.columns[i] = a.range[1][1]

\* C35: with a range {c: (lo, hi)} and translators, a callable for the
\* rows or a dict with a translator for c, the rows yielded are the rows
\* whose stored value of c is within the range: the same rows as without
\* the translators, translated.
C35_RangeOnStored == TranslatedRangeCall => SelectedAsStored

\* C35 for the calls whose range column has no translator of its own
C35_RangeOnStoredUntranslated ==
    (TranslatedRangeCall /\ ~RangeColumnTranslated(called.a)) => SelectedAsStored

\* a call with a range on k and a translator for k, among the columns,
\* over a slice with a row whose k is within the range and a row whose k
\* is not
C35_Witness ==
    /\ TranslatedRangeCall
    /\ RangeColumnTranslated(called.a)
    /\ \E t \in Range(ToVisit(called.a)), s \in SlicesRead(called.a) :
          /\ InRangeStored(called.a, t, s) # <<>>
          /\ Len(InRangeStored(called.a, t, s)) < Len(SliceOf(called.a, t, s))
          /\ RowsOfEntry(t, s)
                # [i \in DOMAIN InRangeStored(called.a, t, s) |->
                      Translated(called.a, InRangeStored(called.a, t, s)[i])]

-----------------------------------------------------------------------------
(* The list of the datasets the job wrote.                                 *)

\* the names under which the job persists datasets
JobNames == {dsname} \cup LinkNames \cup MergeNames

\* is name among the names written down for job_datasets
Listed(name) == \E i \in DOMAIN datasets_written : datasets_written[i] = name

\* C36: every dataset the job persisted, through the finish of its
\* writer, link_to_here or merge, has its name in the list of written
\* datasets, where job_datasets finds it.
C36_PersistedListed ==
    \A name \in JobNames :
        FullName(job, name) \in DOMAIN datasets => Listed(name)

\* C36 for the datasets that finish and link_to_here persisted
C36_FinishedAndLinkedListed ==
    \A name \in JobNames :
        (/\ FullName(job, name) \in DOMAIN datasets
         /\ saved_by[FullName(job, name)] # "merge") => Listed(name)

\* the finished dataset of the job and a dataset merged in the job, of
\* which only the first is listed
C36_Witness ==
    /\ Listed(dsname)
    /\ \E name \in MergeNames :
          /\ FullName(job, name) \in DOMAIN datasets
          /\ saved_by[FullName(job, name)] = "merge"
          /\ ~Listed(name)

-----------------------------------------------------------------------------
(* The Runner of the daemon (runner.py).  The daemon talks to a runner     *)
(* process over a socket pair: request threads call Runner._do, the        *)
(* receiver thread hands each answer to the call that waits for it.  The   *)
(* runner process serves the requests it reads, launch_finish on threads   *)
(* of its own, and may exit at any time.                                   *)

MaxThreads == 2
MaxCalls == 3

Requesters == 1 .. MaxThreads

\* launch_start, launch_finish and launch_waitpid
Ops == {"s", "f", "w"}

\* neither a job nor an Urd where the Runner lives
NoJob ==
    /\ running = None
    /\ g_sliceno = None
    /\ dw = None
    /\ writers = <<>>
    /\ allwriters = <<>>
    /\ files = <<>>
    /\ datasets = <<>>
    /\ saved_by = <<>>
    /\ datasets_written = <<>>
    /\ registry = {}
    /\ written = <<>>
    /\ rewritten = {}
    /\ called = NoCall

\* a request thread outside _do
Outside(n) == [pc |-> "idle", n |-> n, op |-> "", data |-> None,
               cookie |-> None, q |-> <<>>]

\* Runner.__init__: no cookie handed out, no waiters, the lock free, the
\* receiver thread started; the runner process is up
InitRunner ==
    /\ NoJob
    /\ urd = None
    /\ urd_call = None
    /\ runner = [cookie |-> 0, _waiters |-> <<>>, _lock |-> 0]
    /\ sock = [to_runner |-> <<>>, to_daemon |-> <<>>, peer |-> "up",
               finishing |-> {}]
    /\ threads = [receiver |-> [pc |-> "recv", exc |-> "", seen |-> {},
                                size |-> 0],
                  req |-> [t \in Requesters |-> Outside(0)],
                  calls |-> <<>>]

\* what the runner process answers to a request with data (launch_waitpid
\* answers None)
Result(op, data) == IF op = "w" THEN None ELSE [of |-> data]

\* "self.cookie += 1", and the same left undone
next_cookie_same(cookie) == cookie
next_cookie(cookie) == cookie + 1

\* the outcome of a call, as the history keeps it
Returned(cookie, res) == [cookie |-> cookie, res |-> res]

\* _do: "with self._lock:", "cookie = self.cookie", "self.cookie += 1",
\* for the n-th call of the thread t
_do_enter(t, op) ==
    /\ threads.req[t].pc = "idle"
    /\ runner._lock = 0
    /\ Cardinality(DOMAIN threads.calls) < MaxCalls
    /\ runner' = [runner EXCEPT !._lock = t, !.cookie = next_cookie(@)]
    /\ threads' = [threads EXCEPT
                      !.req[t] = [pc |-> "locked", n |-> @.n + 1, op |-> op,
                                  data |-> <<t, @.n + 1>>,
                                  cookie |-> Some(runner.cookie), q |-> <<>>],
                      !.calls = DictSet(@, <<t, threads.req[t].n + 1>>,
                                        Returned(runner.cookie, None))]
    /\ UNCHANGED <<job_vars, sock, urd, urd_call>>

\* _do: "waiter = self._waiter(cookie)": a new queue is put among the
\* waiters under the cookie
_do_register(t) ==
    /\ threads.req[t].pc = "locked"
    /\ runner' = [runner EXCEPT
                     !._waiters = DictSet(@, threads.req[t].cookie[1],
                                          threads.req[t].data)]
    /\ threads' = [threads EXCEPT !.req[t].pc = "registered"]
    /\ UNCHANGED <<job_vars, sock, urd, urd_call>>

\* _do: "self.sock.sendall(header + data)" and the end of the with block;
\* sendall raises when the runner process has closed its end
_do_send(t) ==
    /\ threads.req[t].pc = "registered"
    /\ runner' = [runner EXCEPT !._lock = 0]
    /\ IF sock.peer = "closed"
       THEN /\ threads' = [threads EXCEPT
                              !.req[t] = Outside(@.n),
                              !.calls[threads.req[t].data].res =
                                  Some([exc |-> "OSError"])]
            /\ UNCHANGED sock
       ELSE /\ sock' = [sock EXCEPT
                           !.to_runner =
                               Append(@, [op |-> threads.req[t].op,
                                          cookie |-> threads.req[t].cookie[1],
                                          data |-> threads.req[t].data])]
            /\ threads' = [threads EXCEPT !.req[t].pc = "waiting"]
    /\ UNCHANGED <<job_vars, urd, urd_call>>

\* _do: "res = waiter()" once the queue holds something, then the raise
\* or the return
_do_wait(t) ==
    /\ threads.req[t].pc = "waiting"
    /\ threads.req[t].q # <<>>
    /\ threads' = [threads EXCEPT
                      !.req[t] = Outside(@.n),
                      !.calls[threads.req[t].data].res =
                          IF threads.req[t].q[1] = None
                          THEN Some([exc |-> "Runner exited unexpectedly."])
                          ELSE Some([ret |-> threads.req[t].q[1]])]
    /\ UNCHANGED <<job_vars, runner, sock, urd, urd_call>>

\* the request thread whose call made the queue q, if it still waits on it
Holder(q) == {t \in Requesters : /\ threads.req[t].pc # "idle"
                                 /\ threads.req[t].data = q}

\* a dict without the key k
DictDel(d, k) == [x \in (DOMAIN d) \ {k} |-> d[x]]

\* "break" in _receiver: the loop over the waiters starts
Lost(exc) ==
    [pc |-> "lost", exc |-> exc, seen |-> {},
     size |-> Cardinality(DOMAIN runner._waiters)]

\* _receiver, one round of "while True": the end of the stream breaks the
\* loop, a message that was cut off when the runner process exited and
\* a cookie without waiter raise and break it, and the data of any other
\* message is put into the queue popped for its cookie (put waits for
\* room in the queue)
_receiver ==
    /\ threads.receiver.pc = "recv"
    /\ IF sock.to_daemon = <<>>
       THEN /\ sock.peer = "closed"
            /\ threads' = [threads EXCEPT !.receiver = Lost("")]
            /\ UNCHANGED <<runner, sock>>
       ELSE LET m == Head(sock.to_daemon)
            IN /\ sock' = [sock EXCEPT !.to_daemon = Tail(@)]
               /\ IF m.cut
                  THEN /\ threads' = [threads EXCEPT
                                         !.receiver = Lost("TypeError")]
                       /\ UNCHANGED runner
                  ELSE IF m.cookie \notin DOMAIN runner._waiters
                  THEN /\ threads' = [threads EXCEPT
                                         !.receiver = Lost("KeyError")]
                       /\ UNCHANGED runner
                  ELSE /\ \A t \in Holder(runner._waiters[m.cookie]) :
                             threads.req[t].q = <<>>
                       /\ runner' = [runner EXCEPT
                                        !._waiters = DictDel(@, m.cookie)]
                       /\ threads' =
                             [threads EXCEPT
                                 !.req = [t \in Requesters |->
                                     IF t \in Holder(runner._waiters[m.cookie])
                                     THEN [@[t] EXCEPT !.q = <<m.data>>]
                                     ELSE @[t]]]
    /\ UNCHANGED <<job_vars, urd, urd_call>>

\* _receiver, one round of "for q in itervalues(self._waiters)": the
\* iterator raises RuntimeError when the dict changed size since the loop
\* started, which ends the thread; else the next queue gets None unless
\* it is full; the order is the dict's
_receiver_lost ==
    /\ threads.receiver.pc = "lost"
    /\ IF Cardinality(DOMAIN runner._waiters) # threads.receiver.size
       THEN threads' = [threads EXCEPT !.receiver.pc = "exited",
                                       !.receiver.exc = "RuntimeError"]
       ELSE IF DOMAIN runner._waiters = threads.receiver.seen
       THEN threads' = [threads EXCEPT !.receiver.pc = "exited"]
       ELSE \E cookie \in (DOMAIN runner._waiters) \ threads.receiver.seen :
               threads' =
                  [threads EXCEPT
                      !.receiver.seen = @ \cup {cookie},
                      !.req = [t \in Requesters |->
                          IF /\ t \in Holder(runner._waiters[cookie])
                             /\ threads.req[t].q = <<>>
                          THEN [@[t] EXCEPT !.q = <<None>>]
                          ELSE @[t]]]
    /\ UNCHANGED <<job_vars, runner, sock, urd, urd_call>>

\* respond(cookie, data) of the runner process
respond(s, cookie, data) ==
    [s EXCEPT !.to_daemon = Append(@, [cut |-> FALSE, cookie |-> cookie,
                                       data |-> data])]

\* the runner process, one round of its "while True": launch_start and
\* launch_waitpid are answered at once, launch_finish goes to a thread
runner_main ==
    /\ sock.peer = "up"
    /\ sock.to_runner # <<>>
    /\ LET m == Head(sock.to_runner)
           s == [sock EXCEPT !.to_runner = Tail(@)]
       IN sock' = IF m.op = "f"
                  THEN [s EXCEPT !.finishing = @ \cup {m}]
                  ELSE respond(s, m.cookie, Result(m.op, m.data))
    /\ UNCHANGED <<job_vars, runner, threads, urd, urd_call>>

\* launch_finish(cookie, data) on its thread in the runner process
launch_finish ==
    /\ sock.peer = "up"
    /\ \E m \in sock.finishing :
          sock' = respond([sock EXCEPT !.finishing = @ \ {m}], m.cookie,
                          Result(m.op, m.data))
    /\ UNCHANGED <<job_vars, runner, threads, urd, urd_call>>

\* the runner process exits, between two answers or in the middle of one
runner_exit(cut) ==
    /\ sock.peer = "up"
    /\ sock' = [sock EXCEPT
                   !.peer = "closed", !.finishing = {}, !.to_runner = <<>>,
                   !.to_daemon = IF cut
                                 THEN Append(@, [cut |-> TRUE, cookie |-> 0,
                                                 data |-> None])
                                 ELSE @]
    /\ UNCHANGED <<job_vars, runner, threads, urd, urd_call>>

NextRunner ==
    \/ \E t \in Requesters, op \in Ops : _do_enter(t, op)
    \/ \E t \in Requesters : _do_register(t)
    \/ \E t \in Requesters : _do_send(t)
    \/ \E t \in Requesters : _do_wait(t)
    \/ _receiver
    \/ _receiver_lost
    \/ runner_main
    \/ launch_finish
    \/ \E cut \in BOOLEAN : runner_exit(cut)

SpecRunner == InitRunner /\ [][NextRunner]_vars

-----------------------------------------------------------------------------
(* Properties of the Runner.                                               *)

\* the requests and answers on their way, by cookie
InFlight ==
    {sock.to_runner[i].cookie : i \in DOMAIN sock.to_runner}
    \cup {m.cookie : m \in sock.finishing}
    \cup {sock.to_daemon[i].cookie :
             i \in {j \in DOMAIN sock.to_daemon : ~sock.to_daemon[j].cut}}

\* the calls that returned a value
ReturnedCalls ==
    {d \in DOMAIN threads.calls :
        /\ threads.calls[d].res # None
        /\ "ret" \in DOMAIN threads.calls[d].res[1]}

\* C37: however the calls of _do on the request threads and the receiver
\* interleave, no two calls get the same cookie, a request or an answer is
\* on its way only for a cookie with a registered waiter (the receiver
\* never meets a cookie without one), and a call that returns returns the
\* answer to its own request.
C37_OwnAnswer ==
    /\ \A d1 \in DOMAIN threads.calls, d2 \in DOMAIN threads.calls :
          d1 # d2 => threads.calls[d1].cookie # threads.calls[d2].cookie
    /\ InFlight \subseteq DOMAIN runner._waiters
    /\ threads.receiver.exc # "KeyError"
    /\ \A d \in ReturnedCalls :
          threads.calls[d].res[1].ret = Result("s", d)

\* a call has returned its answer, and two calls of different threads
\* wait while the answer to the later of them is the first to arrive
C37_Witness ==
    /\ ReturnedCalls # {}
    /\ \E t1 \in Requesters, t2 \in Requesters :
          /\ threads.req[t1].pc = "waiting"
          /\ threads.req[t2].pc = "waiting"
          /\ threads.req[t1].cookie[1] < threads.req[t2].cookie[1]
          /\ sock.to_daemon # <<>>
          /\ ~Head(sock.to_daemon).cut
          /\ Head(sock.to_daemon).cookie = threads.req[t2].cookie[1]

\* every thread of the daemon gets its turn, and the runner process goes
\* on for as long as it is up; nothing makes a request thread call _do or
\* the runner process exit
FairRunner ==
    /\ \A t \in Requesters :
          /\ WF_vars(_do_register(t))
          /\ WF_vars(_do_send(t))
          /\ WF_vars(_do_wait(t))
    /\ WF_vars(_receiver)
    /\ WF_vars(_receiver_lost)
    /\ WF_vars(runner_main)
    /\ WF_vars(launch_finish)

SpecRunnerFair == InitRunner /\ [][NextRunner]_vars /\ FairRunner

\* the thread t is inside _do
InDo(t) == threads.req[t].pc # "idle"

\* C38: no call of _do waits for ever: every call comes to its end, with
\* its answer or with an exception, also when the receiver stops, at the
\* end of the stream or on an exception, before, while or after the call
\* registers its waiter.
C38_NoWaitForever == \A t \in Requesters : InDo(t) ~> ~InDo(t)

\* C38 unless the receiver's loop over the waiters ended in RuntimeError
C38_NoWaitForeverUnlessRaced ==
    \A t \in Requesters :
        InDo(t) ~> (~InDo(t) \/ threads.receiver.exc = "RuntimeError")

\* the receiver thread is gone, its loop over the waiters ended by a
\* waiter registered meanwhile, and a call waits on a queue that the loop
\* had not come to
C38_Witness ==
    /\ threads.receiver.pc = "exited"
    /\ threads.receiver.exc = "RuntimeError"
    /\ \E t \in Requesters :
          /\ threads.req[t].pc = "waiting"
          /\ threads.req[t].q = <<>>
          /\ threads.req[t].cookie[1] \in DOMAIN runner._waiters
          /\ threads.req[t].cookie[1] \notin threads.receiver.seen

-----------------------------------------------------------------------------
(* Urd, the client of the urd server in a build script (build.py).  The    *)
(* script begins a session, builds jobs, asks for dependencies and         *)
(* finishes or aborts the session; begin, finish and _get go through       *)
(* _call, which asks the server up to three times.  A path is kept as its  *)
(* components between the '/'.                                             *)

MaxJobs == 1

\* "tries_left = 3"
Tries == 3

User == "user"
Paths == {<<"build">>, <<User, "build">>, <<User, "other">>,
          <<User, "build", "x">>}
Timestamps == {"", "t"}

\* what the server does with one request: a good answer, an answer that
\* is no JSON, the codes 401 and 409 as an answer and as HTTPError, another
\* HTTPError, or no connection (URLError)
Answers == {"good", "bad", "401", "409", "http401", "http409", "http500",
            "urlerror"}

\* Urd._path
_path(path) == IF Len(path) = 1 THEN <<User>> \o path ELSE path

\* no method of Urd is running; what the last one was and how it ended
Ended(method, path, timestamp, session, answers, res) ==
    [pc |-> "done", method |-> method, path |-> path,
     timestamp |-> timestamp, session |-> session, tries_left |-> 0,
     answers |-> answers, res |-> res]

\* Urd.__init__ with an Automata that has built nothing; joblist is the
\* list jobs of the Automata (the same object)
InitUrd ==
    /\ NoJob
    /\ runner = None
    /\ sock = None
    /\ threads = None
    /\ urd = [_current |-> None, _current_timestamp |-> "", _deps |-> {},
              jobs |-> <<>>, _auth_tested |-> FALSE]
    /\ urd_call = Ended("", <<>>, "", None, <<>>, "")

\* the method enters _call: "tries_left = 3"
Calling(method, path, timestamp) ==
    [pc |-> "call", method |-> method, path |-> path,
     timestamp |-> timestamp,
     session |-> [_current |-> urd._current,
                  _current_timestamp |-> urd._current_timestamp],
     tries_left |-> Tries, answers |-> <<>>, res |-> ""]

\* the method ends without a request
Fails(method, path, timestamp, res) ==
    Ended(method, path, timestamp,
          [_current |-> urd._current,
           _current_timestamp |-> urd._current_timestamp], <<>>, res)

\* begin that keeps the dependencies and the jobs it finds
begin_rest_keeping(u, path, timestamp) ==
    [u EXCEPT !._auth_tested = TRUE, !._current = Some(_path(path)),
              !._current_timestamp = timestamp]

\* begin after the test of the authorisation: the session is current,
\* with no dependencies and a new record of jobs
begin_rest(u, path, timestamp) ==
    [u EXCEPT !._auth_tested = TRUE, !._current = Some(_path(path)),
              !._current_timestamp = timestamp, !._deps = {},
              !.jobs = <<>>]

\* Urd.begin(path, timestamp), up to its request
begin(path, timestamp) ==
    /\ urd_call.pc = "done"
    /\ IF urd._current # None
       THEN /\ urd_call' = Fails("begin", path, timestamp, "AssertionError")
            /\ UNCHANGED urd
       ELSE IF ~urd._auth_tested
       THEN /\ urd_call' = Calling("begin", path, timestamp)
            /\ UNCHANGED urd
       ELSE /\ urd_call' = Fails("begin", path, timestamp, "ok")
            /\ urd' = begin_rest(urd, path, timestamp)
    /\ UNCHANGED <<job_vars, runner, sock, threads>>

\* Urd.abort()
abort ==
    /\ urd_call.pc = "done"
    /\ urd' = [urd EXCEPT !._current = None]
    /\ urd_call' = Fails("abort", <<>>, "", "ok")
    /\ UNCHANGED <<job_vars, runner, sock, threads>>

\* Urd.finish(path, timestamp), up to its request
finish_session(path, timestamp) ==
    /\ urd_call.pc = "done"
    /\ IF urd._current = None \/ urd._current # Some(_path(path))
       THEN /\ urd_call' = Fails("finish", path, timestamp, "AssertionError")
            /\ UNCHANGED urd
       ELSE IF Len(_path(path)) # 2
       THEN /\ urd_call' = Fails("finish", path, timestamp, "ValueError")
            /\ UNCHANGED urd
       ELSE /\ urd' = [urd EXCEPT !._current = None]
            /\ urd_call' =
                  IF timestamp = "" /\ urd._current_timestamp = ""
                  THEN Fails("finish", path, timestamp, "AssertionError")
                  ELSE Calling("finish", path, timestamp)
    /\ UNCHANGED <<job_vars, runner, sock, threads>>

\* Urd._get(path, ...), up to its request
_get(path) ==
    /\ urd_call.pc = "done"
    /\ urd_call' = IF urd._current = None \/ _path(path) \in urd._deps
                   THEN Fails("get", path, "", "AssertionError")
                   ELSE Calling("get", path, "")
    /\ UNCHANGED <<job_vars, runner, sock, threads, urd>>

\* Urd.build(method): Automata.call_method records the job
build(jid) ==
    /\ urd_call.pc = "done"
    /\ Len(urd.jobs) < MaxJobs
    /\ urd' = [urd EXCEPT !.jobs = Append(@, jid)]
    /\ UNCHANGED <<job_vars, runner, sock, threads, urd_call>>

\* how a try that failed with an HTTPError or a ValueError counts:
\* "tries_left -= 1", and the same left undone
tried_same(tries_left) == tries_left
tried(tries_left) == tries_left - 1

\* what _call raises for the answer of a request, "" when it returns,
\* "again" when it sleeps and asks again
_call_raises(answer, tries_left) ==
    IF answer \in {"401", "http401"} THEN "UrdPermissionError"
    ELSE IF answer \in {"409", "http409"} THEN "UrdConflictError"
    ELSE IF answer = "urlerror" THEN "UrdError"
    ELSE IF answer = "good" THEN ""
    ELSE IF tried(tries_left) = 0 THEN "UrdError" ELSE "again"

\* _call, one round of "while True" with the answer of the server, and
\* what the method does with what _call returns or raises
_call(answer) ==
    /\ urd_call.pc = "call"
    /\ LET c == urd_call
           raises == _call_raises(answer, c.tries_left)
           answers == Append(c.answers, answer)
       IN IF raises = "again"
          THEN /\ urd_call' = [c EXCEPT !.tries_left = tried(@),
                                        !.answers = answers]
               /\ UNCHANGED urd
          ELSE IF raises # ""
          THEN /\ urd_call' =
                     Ended(c.method, c.path, c.timestamp, c.session, answers,
                           IF /\ c.method = "begin"
                              /\ raises = "UrdPermissionError"
                           THEN "Exception" ELSE raises)
               /\ UNCHANGED urd
          ELSE /\ urd_call' = Ended(c.method, c.path, c.timestamp, c.session,
                                    answers, "ok")
               /\ urd' = IF c.method = "begin"
                         THEN begin_rest(urd, c.path, c.timestamp)
                         ELSE IF c.method = "get"
                         THEN [urd EXCEPT !._deps = @ \cup {_path(c.path)}]
                         ELSE urd
    /\ UNCHANGED <<job_vars, runner, sock, threads>>

NextUrd ==
    \/ \E path \in Paths, timestamp \in Timestamps : begin(path, timestamp)
    \/ abort
    \/ \E path \in Paths, timestamp \in Timestamps :
          finish_session(path, timestamp)
    \/ \E path \in Paths : _get(path)
    \/ build("job")
    \/ \E answer \in Answers : _call(answer)

SpecUrd == InitUrd /\ [][NextUrd]_vars

\* urlopen returns or raises, and the sleep of four seconds ends
FairUrd == WF_vars(\E answer \in Answers : _call(answer))

SpecUrdFair == InitUrd /\ [][NextUrd]_vars /\ FairUrd

-----------------------------------------------------------------------------
(* Properties of Urd.                                                      *)

\* the last method was method and ended with res
Last(method, res) ==
    /\ urd_call.pc = "done"
    /\ urd_call.method = method
    /\ urd_call.res = res

\* C39: over any sequence of begin, finish and abort at most one session
\* is current: begin fails while a session is current and leaves it as it
\* is; finish(path) succeeds only for the path the current session was
\* begun with, and with a timestamp given to begin or to finish; after a
\* finish that succeeded and after abort no session is current; and begin
\* starts every session without dependencies and without jobs.
C39_OneSession ==
    /\ [](/\ (urd_call.method = "begin"
              /\ urd_call.session._current # None)
                 => /\ Last("begin", "AssertionError")
                    /\ urd._current = urd_call.session._current
          /\ Last("finish", "ok")
                => /\ urd_call.session._current = Some(_path(urd_call.path))
                   /\ \/ urd_call.timestamp # ""
                      \/ urd_call.session._current_timestamp # ""
          /\ (Last("finish", "ok") \/ Last("abort", "ok"))
                => urd._current = None)
    /\ [][/\ urd._current # None => urd'._current \in {urd._current, None}
          /\ (urd._current = None /\ urd'._current # None)
                => /\ urd_call'.method = "begin"
                   /\ urd'._deps = {}
                   /\ urd'.jobs = <<>>]_vars

\* a session begun as 'build' with dependencies and a job, finished as
\* 'user/build' with the timestamp given to finish
C39_Witness ==
    /\ Last("finish", "ok")
    /\ urd_call.path = <<User, "build">>
    /\ urd_call.session._current_timestamp = ""
    /\ urd._deps # {}
    /\ urd.jobs # <<>>

\* the answers that make _call ask again
Retried == {"bad", "http500"}

\* what _call has asked and got so far, and how it ended, is as specified
AsksAsSpecified ==
    LET a == urd_call.answers
        n == Len(a)
    IN /\ n <= 3
       /\ \A i \in 1 .. (n - 1) : a[i] \in Retried
       /\ urd_call.pc = "call" => n < 3 /\ \A i \in 1 .. n : a[i] \in Retried
       /\ (urd_call.pc = "done" /\ n > 0) =>
             /\ a[n] \in {"401", "http401"}
                   => urd_call.res = IF urd_call.method = "begin"
                                     THEN "Exception"
                                     ELSE "UrdPermissionError"
             /\ a[n] \in {"409", "http409"}
                   => urd_call.res = "UrdConflictError"
             /\ a[n] = "urlerror" => urd_call.res = "UrdError"
             /\ a[n] \in Retried => n = 3 /\ urd_call.res = "UrdError"
             /\ a[n] = "good" => urd_call.res = "ok"

\* C40: _call ends after at most 3 requests: the code 401 or 409 raises
\* UrdPermissionError or UrdConflictError and a URLError raises UrdError,
\* each at once; another HTTPError or an answer that cannot be decoded
\* makes it ask again, and the third such failure, of either kind, raises
\* UrdError; the first good answer is returned.
C40_CallEnds ==
    /\ []AsksAsSpecified
    /\ (urd_call.pc = "call") ~> (urd_call.pc = "done")

\* a call that ended in UrdError after three requests that failed in both
\* ways
C40_Witness ==
    /\ urd_call.pc = "done"
    /\ urd_call.answers = <<"bad", "http500", "bad">>
    /\ urd_call.res = "UrdError"

====
